---------------------------- MODULE Spec2Model ----------------------------
(***************************************************************************)
(* Ventanilla Unica: the monthly tax provision calculator for Colombia     *)
(* (calculateMonthlyProvisionCO) and the calls its callers make to it.     *)
(*                                                                         *)
(* Numbers.  The source computes in JavaScript numbers with the decimal    *)
(* literals 0.05, 0.1, 0.08, 1.25, 0.75, 1.0 and 0.15.  The model keeps    *)
(* every product exact: pesos are integers, a rate is held in hundredths,  *)
(* a factor in hundredths, and every amount of the breakdown that comes    *)
(* out of a product is held in units of 1/Scale peso (Scale = 100 * 100).  *)
(* Binary rounding of the products is not modelled.                        *)
(***************************************************************************)
EXTENDS Integers, FiniteSets, Sequences, TLC

\* ------------------------------------------------------------------ bounds
\* Largest peso amount of income, deductible expenses and VAT collected.
MaxAmount == 4
\* Largest number of upserts the monthly-input table applies in a run.
MaxWrites == 2

\* ------------------------------------------------------- types of the rows
PersonaTypes == {"natural", "juridica", "unknown"}
Regimens == {"simple", "ordinario", "unknown"}
VatResponsibles == {"yes", "no", "unknown"}
ProvisionStyles == {"conservative", "balanced", "aggressive"}
RiskLevels == {"high", "medium", "low"}

\* municipality: string | null
NULL == "null"

\* The fields of the two rows that the calculator's parameter types do not
\* declare: the profile's municipality and the monthly row's year and month.
UndeclaredFields ==
    {[municipality |-> NULL, year |-> 2026, month |-> 11],
     [municipality |-> "Bogota", year |-> 2027, month |-> 1]}

Municipalities == {u.municipality : u \in UndeclaredFields}
Years == {u.year : u \in UndeclaredFields}
Months == {u.month : u \in UndeclaredFields}

Amounts == 0..MaxAmount
WithholdingAmounts == {0, MaxAmount}

\* UserTaxProfileRow: the profile row the callers pass (the calculator's
\* parameter type UserTaxProfileCO declares the first four fields only).
Profiles ==
    [persona_type : PersonaTypes,
     regimen : Regimens,
     vat_responsible : VatResponsibles,
     provision_style : ProvisionStyles,
     municipality : Municipalities]

\* MonthlyTaxInputRow: the monthly row the callers pass (the calculator's
\* parameter type MonthlyTaxInputsCO declares the four amounts only).
MonthlyInputs ==
    [year : Years,
     month : Months,
     income_cop : Amounts,
     deductible_expenses_cop : Amounts,
     withholdings_cop : WithholdingAmounts,
     vat_collected_cop : Amounts]

\* ------------------------------------------------------------- fixed point
Scale == 100 * 100

Max(a, b) == IF a >= b THEN a ELSE b

\* -------------------------------------------- calculateMonthlyProvisionCO
\* A rate table that gives regimen "unknown" the rate of "ordinario".
rentaRateBase_UnknownAsOrdinario(regimen) ==
    IF regimen = "simple" THEN 5 ELSE 10

\* profile.regimen === "simple" ? 0.05 : === "ordinario" ? 0.1 : 0.08,
\* in hundredths.
rentaRateBase(regimen) ==
    IF regimen = "simple" THEN 5
    ELSE IF regimen = "ordinario" THEN 10
    ELSE 8

\* A factor table with the factors of "conservative" and "aggressive" swapped.
provisionFactor_Swapped(style) ==
    IF style = "conservative" THEN 75
    ELSE IF style = "aggressive" THEN 125
    ELSE 100

\* A factor table whose "conservative" factor is 12.5.
provisionFactor_Tenfold(style) ==
    IF style = "conservative" THEN 1250
    ELSE IF style = "aggressive" THEN 75
    ELSE 100

\* conservative -> 1.25, aggressive -> 0.75, otherwise 1.0, in hundredths.
provisionFactor(style) ==
    IF style = "conservative" THEN 125
    ELSE IF style = "aggressive" THEN 75
    ELSE 100

\* A VAT gate that lets vat_responsible "unknown" through.
ivaProvisionOf_UnknownAsYes(p, i) ==
    IF p.vat_responsible # "no" THEN i.vat_collected_cop * Scale ELSE 0

\* The VAT provision net of withholdings, floored at zero.
ivaProvisionOf_NetOfWithholdings(p, i) ==
    IF p.vat_responsible = "yes"
    THEN Max(i.vat_collected_cop - i.withholdings_cop, 0) * Scale
    ELSE 0

\* profile.vat_responsible === "yes" ? inputs.vat_collected_cop : 0,
\* in units of 1/Scale peso.
ivaProvisionOf(p, i) ==
    IF p.vat_responsible = "yes" THEN i.vat_collected_cop * Scale ELSE 0

\* A base without the floor at zero.
baseOf_Unfloored(i) == i.income_cop - i.deductible_expenses_cop

\* Math.max(inputs.income_cop - inputs.deductible_expenses_cop, 0), in pesos.
baseOf(i) == Max(i.income_cop - i.deductible_expenses_cop, 0)

\* base * rentaRateBase * provisionFactor, in units of 1/Scale peso.
rentaProvisionOf(p, i) ==
    baseOf(i) * rentaRateBase(p.regimen) * provisionFactor(p.provision_style)

\* rentaProvision + ivaProvision
totalProvisionOf(p, i) == rentaProvisionOf(p, i) + ivaProvisionOf(p, i)

\* A residual cash floored at zero.
cashAfterProvisionOf_Floored(p, i) ==
    Max((i.income_cop - i.deductible_expenses_cop) * Scale - totalProvisionOf(p, i), 0)

\* inputs.income_cop - inputs.deductible_expenses_cop - totalProvision
cashAfterProvisionOf(p, i) ==
    (i.income_cop - i.deductible_expenses_cop) * Scale - totalProvisionOf(p, i)

\* 0.15 * inputs.income_cop, in units of 1/Scale peso.
mediumThreshold(i) == 15 * i.income_cop * 100

\* A classifier that tests the medium threshold before the sign.
riskLevelOf_MediumFirst(cash, i) ==
    IF cash < mediumThreshold(i) THEN "medium"
    ELSE IF cash < 0 THEN "high"
    ELSE "low"

\* A classifier whose medium threshold is inclusive.
riskLevelOf_InclusiveThreshold(cash, i) ==
    IF cash < 0 THEN "high"
    ELSE IF cash <= mediumThreshold(i) THEN "medium"
    ELSE "low"

\* A classifier that also calls a residual cash of exactly zero "high".
riskLevelOf_ZeroIsHigh(cash, i) ==
    IF cash <= 0 THEN "high"
    ELSE IF cash < mediumThreshold(i) THEN "medium"
    ELSE "low"

\* let riskLevel = "low"; if (cash < 0) "high"; else if (cash < 0.15 * income)
\* "medium".
riskLevelOf(cash, i) ==
    IF cash < 0 THEN "high"
    ELSE IF cash < mediumThreshold(i) THEN "medium"
    ELSE "low"

UnsupportedPersonaError == "Solo se soporta persona natural en esta version MVP."

\* A persona gate that rejects "juridica" only.
personaSupported_OnlyJuridicaRejected(p) == p.persona_type # "juridica"

\* The persona gate: profile.persona_type !== "natural" returns the error.
personaSupported(p) == p.persona_type = "natural"

\* The whole function: MonthlyProvisionError or MonthlyProvisionSuccess.
calculateMonthlyProvisionCO(p, i) ==
    IF ~personaSupported(p)
    THEN [ok |-> FALSE, error |-> UnsupportedPersonaError]
    ELSE [ok |-> TRUE,
          breakdown |->
            [ivaProvision |-> ivaProvisionOf(p, i),
             base |-> baseOf(i),
             rentaProvision |-> rentaProvisionOf(p, i),
             rentaRateBase |-> rentaRateBase(p.regimen),
             provisionStyle |-> p.provision_style,
             provisionFactor |-> provisionFactor(p.provision_style),
             totalProvision |-> totalProvisionOf(p, i),
             cashAfterProvision |-> cashAfterProvisionOf(p, i),
             riskLevel |-> riskLevelOf(cashAfterProvisionOf(p, i), i)]]

\* ------------------------------------------------------------------- state
VARIABLES
    profile,    \* the profile argument of the latest call
    inputs,     \* the monthly-input argument of the latest call
    result,     \* what the latest call returned, NoResult before it returns
    prev,       \* the call before the latest one, NoCall when there is none
    request,    \* the request a handler is serving, NoRequest when there is none
    response,   \* what the handler answered, NoResponse before it answers
    store,      \* the rows of table monthly_tax_inputs_co
    profileStore, \* the rows of table user_tax_profile_co
    posts,      \* the monthly-input POST requests in flight, per connection
    applied,    \* the upserts the store has applied, oldest first
    now,        \* the calendar month of new Date(), <<year, month>>
    altResult,  \* what the alternate calculator returned, NoResult before
    panel,      \* the estimate panel of the chat page
    form,       \* the tax form of the chat page and its save in progress
    requestLog, \* the rate limiter's Map: key -> timestamps kept
    allowedLog, \* per key, the times of the calls answered allowed = true
    conversations, \* the rows of table conversations
    messages,   \* the rows of table messages, in order of insertion
    chats,      \* the chat POST requests in flight, per connection
    demoMode,   \* isDemoModeEnabled()
    clock       \* Date.now(), in milliseconds

calcVars == <<profile, inputs, result, prev>>

\* The state of the request handlers and of the tables they use.
handlerVars == <<request, response, store, profileStore, posts, applied, now>>

\* The state of the chat page and of the chat endpoint.
chatVars == <<requestLog, allowedLog, conversations, messages, chats, demoMode, clock>>

otherVars ==
    <<altResult, panel, form, requestLog, allowedLog, conversations, messages, chats,
      demoMode, clock>>

vars ==
    <<profile, inputs, result, prev, request, response, store, profileStore, posts,
      applied, now, altResult, panel, form, requestLog, allowedLog, conversations,
      messages, chats, demoMode, clock>>

NoRequest == [kind |-> "none"]
NoResponse == [status |-> 0]

\* No request is being served and the tables are empty.
HandlersIdle ==
    /\ request = NoRequest
    /\ response = NoResponse
    /\ store = {}
    /\ profileStore = {}
    /\ posts = <<>>
    /\ applied = <<>>
    /\ now = <<2026, 11>>

NoResult == [ok |-> FALSE, error |-> "not called"]
NoCall == [called |-> FALSE]

NoPanel == [shown |-> FALSE]
NoForm == [pc |-> "closed"]

\* The chat page is not open and the chat endpoint has served nothing.
OthersIdle ==
    /\ altResult = NoResult
    /\ panel = NoPanel
    /\ form = NoForm
    /\ requestLog = <<>>
    /\ allowedLog = <<>>
    /\ conversations = {}
    /\ messages = <<>>
    /\ chats = <<>>
    /\ demoMode = FALSE
    /\ clock = 0

Called == result # NoResult

\* The undeclared fields of the rows of the latest call.
Undeclared ==
    [municipality |-> profile.municipality, year |-> inputs.year, month |-> inputs.month]

\* A caller holds a profile row and a monthly row and has not called yet.
Init ==
    /\ profile \in Profiles
    /\ inputs \in MonthlyInputs
    /\ Undeclared \in UndeclaredFields
    /\ result = NoResult
    /\ prev = NoCall
    /\ HandlersIdle
    /\ OthersIdle

\* The call calculateMonthlyProvisionCO(profile, inputs) returns.
Calculate ==
    /\ ~Called
    /\ result' = calculateMonthlyProvisionCO(profile, inputs)
    /\ UNCHANGED <<profile, inputs, prev>>
    /\ UNCHANGED handlerVars
    /\ UNCHANGED otherVars

ThisCall == [called |-> TRUE, profile |-> profile, inputs |-> inputs, result |-> result]

\* A further call for the same month after the profile's provision_style
\* was changed.
CalculateWithStyle(style) ==
    /\ Called
    /\ style # profile.provision_style
    /\ prev' = ThisCall
    /\ profile' = [profile EXCEPT !.provision_style = style]
    /\ result' = calculateMonthlyProvisionCO(profile', inputs)
    /\ UNCHANGED inputs
    /\ UNCHANGED handlerVars
    /\ UNCHANGED otherVars

\* A further call whose rows differ from the latest call's at most in
\* withholdings_cop and in the fields the parameter types do not declare
\* (with the same values: the same call once more).
CalculateWithOtherRows(w, u) ==
    /\ Called
    /\ prev' = ThisCall
    /\ profile' = [profile EXCEPT !.municipality = u.municipality]
    /\ inputs' = [inputs EXCEPT !.withholdings_cop = w, !.year = u.year, !.month = u.month]
    /\ result' = calculateMonthlyProvisionCO(profile', inputs')
    /\ UNCHANGED handlerVars
    /\ UNCHANGED otherVars

Next ==
    \/ Calculate
    \/ \E style \in ProvisionStyles : CalculateWithStyle(style)
    \/ \E w \in WithholdingAmounts, u \in UndeclaredFields : CalculateWithOtherRows(w, u)

Spec == Init /\ [][Next]_vars

TypeOK ==
    /\ profile \in Profiles
    /\ inputs \in MonthlyInputs
    /\ Undeclared \in UndeclaredFields
    /\ result.ok \in BOOLEAN
    /\ prev.called \in BOOLEAN

\* ------------------------------------------------------------------ claims
Breakdown == result.breakdown

AllZeroInput ==
    /\ inputs.income_cop = 0
    /\ inputs.deductible_expenses_cop = 0
    /\ inputs.withholdings_cop = 0
    /\ inputs.vat_collected_cop = 0

\* C1: the calculator returns the error result, with no breakdown, exactly
\* when persona_type is not "natural"; for "natural" it returns ok = TRUE
\* with a breakdown.
C1_PersonaGate ==
    Called =>
        /\ result.ok <=> (profile.persona_type = "natural")
        /\ profile.persona_type \in {"juridica", "unknown"} =>
              /\ DOMAIN result = {"ok", "error"}
              /\ result.error = UnsupportedPersonaError
        /\ profile.persona_type = "natural" => DOMAIN result = {"ok", "breakdown"}

C1_Witness ==
    /\ Called
    /\ profile.persona_type = "unknown"
    /\ inputs.income_cop > 0
    /\ ~result.ok

\* C2: for a natural-person profile ivaProvision is vat_collected_cop in
\* full when vat_responsible is "yes" and 0 when it is "no" or "unknown",
\* whatever vat_collected_cop and withholdings_cop are.
C2_VatGate ==
    result.ok =>
        /\ profile.vat_responsible = "yes" =>
              Breakdown.ivaProvision = inputs.vat_collected_cop * Scale
        /\ profile.vat_responsible \in {"no", "unknown"} => Breakdown.ivaProvision = 0

C2_Witness ==
    /\ result.ok
    /\ profile.vat_responsible = "unknown"
    /\ inputs.vat_collected_cop > 0
    /\ inputs.withholdings_cop > 0
    /\ Breakdown.ivaProvision = 0

\* C3: base is max(income_cop - deductible_expenses_cop, 0), never negative,
\* also when expenses exceed income.
C3_BaseFloored ==
    result.ok =>
        /\ Breakdown.base >= 0
        /\ inputs.income_cop >= inputs.deductible_expenses_cop =>
              Breakdown.base = inputs.income_cop - inputs.deductible_expenses_cop
        /\ inputs.income_cop < inputs.deductible_expenses_cop => Breakdown.base = 0

C3_Witness ==
    /\ result.ok
    /\ inputs.deductible_expenses_cop > inputs.income_cop
    /\ Breakdown.base = 0

\* C4: rentaProvision = base * rate * multiplier with rate 0.05 / 0.10 / 0.08
\* for regimen simple / ordinario / unknown and multiplier 1.25 / 1.00 / 0.75
\* for style conservative / balanced / aggressive (hundredths each).
C4_RateInHundredths == [simple |-> 5, ordinario |-> 10, unknown |-> 8]

C4_MultiplierInHundredths == [conservative |-> 125, balanced |-> 100, aggressive |-> 75]

C4_RentaFormula ==
    result.ok =>
        Breakdown.rentaProvision =
            Breakdown.base * C4_RateInHundredths[profile.regimen]
                * C4_MultiplierInHundredths[profile.provision_style]

C4_Witness ==
    /\ result.ok
    /\ profile.regimen = "unknown"
    /\ profile.provision_style = "aggressive"
    /\ Breakdown.base = 3
    /\ Breakdown.rentaProvision = 1800

\* C5: totalProvision = rentaProvision + ivaProvision, and cashAfterProvision
\* = income_cop - deductible_expenses_cop - totalProvision, not floored.
C5_TotalAndCash ==
    result.ok =>
        /\ Breakdown.totalProvision = Breakdown.rentaProvision + Breakdown.ivaProvision
        /\ Breakdown.cashAfterProvision =
              (inputs.income_cop - inputs.deductible_expenses_cop) * Scale
                  - Breakdown.totalProvision

C5_Witness ==
    /\ result.ok
    /\ Breakdown.rentaProvision > 0
    /\ Breakdown.ivaProvision > 0
    /\ inputs.income_cop > inputs.deductible_expenses_cop
    /\ Breakdown.cashAfterProvision < 0

\* C6: riskLevel is "high" when cashAfterProvision < 0, otherwise "medium"
\* when cashAfterProvision < 0.15 * income_cop, otherwise "low"; exactly one
\* of the three tiers is produced.
C6_RiskOrder ==
    result.ok =>
        /\ Breakdown.riskLevel \in RiskLevels
        /\ Breakdown.cashAfterProvision < 0 => Breakdown.riskLevel = "high"
        /\ (/\ Breakdown.cashAfterProvision >= 0
            /\ Breakdown.cashAfterProvision * 100 < 15 * inputs.income_cop * Scale)
              => Breakdown.riskLevel = "medium"
        /\ (/\ Breakdown.cashAfterProvision >= 0
            /\ Breakdown.cashAfterProvision * 100 >= 15 * inputs.income_cop * Scale)
              => Breakdown.riskLevel = "low"

\* Both tests match (negative cash is below 0.15 * income): the first wins.
C6_Witness ==
    /\ result.ok
    /\ inputs.income_cop > 0
    /\ Breakdown.cashAfterProvision < 0
    /\ Breakdown.cashAfterProvision * 100 < 15 * inputs.income_cop * Scale
    /\ Breakdown.riskLevel = "high"

\* C7: with regimen, VAT flag and the inputs fixed, going from "aggressive"
\* to "balanced" to "conservative" never decreases rentaProvision.
C7_StyleRank == [aggressive |-> 1, balanced |-> 2, conservative |-> 3]

C7_SameButStyle ==
    /\ prev.called
    /\ prev.result.ok
    /\ result.ok
    /\ prev.profile.regimen = profile.regimen
    /\ prev.profile.vat_responsible = profile.vat_responsible
    /\ prev.inputs.income_cop = inputs.income_cop
    /\ prev.inputs.deductible_expenses_cop = inputs.deductible_expenses_cop
    /\ prev.inputs.withholdings_cop = inputs.withholdings_cop
    /\ prev.inputs.vat_collected_cop = inputs.vat_collected_cop

C7_StyleMonotone ==
    C7_SameButStyle =>
        /\ C7_StyleRank[prev.profile.provision_style] <= C7_StyleRank[profile.provision_style]
              => prev.result.breakdown.rentaProvision <= Breakdown.rentaProvision
        /\ C7_StyleRank[prev.profile.provision_style] >= C7_StyleRank[profile.provision_style]
              => prev.result.breakdown.rentaProvision >= Breakdown.rentaProvision

C7_Witness ==
    /\ C7_SameButStyle
    /\ prev.profile.provision_style = "aggressive"
    /\ profile.provision_style = "conservative"
    /\ prev.result.breakdown.rentaProvision < Breakdown.rentaProvision

\* C8 as claimed: the all-zero input with every profile, of any persona
\* type, yields totalProvision = 0, cashAfterProvision = 0 and "low".
C8_Claimed ==
    (Called /\ AllZeroInput) =>
        /\ result.ok
        /\ Breakdown.totalProvision = 0
        /\ Breakdown.cashAfterProvision = 0
        /\ Breakdown.riskLevel = "low"

\* C8 as amended: the all-zero input with every natural-person profile
\* yields totalProvision = 0, cashAfterProvision = 0 and "low"; with any
\* other persona type it yields the error result and no breakdown.
C8_AllZeroNatural ==
    (Called /\ AllZeroInput) =>
        IF profile.persona_type = "natural"
        THEN /\ result.ok
             /\ Breakdown.totalProvision = 0
             /\ Breakdown.cashAfterProvision = 0
             /\ Breakdown.riskLevel = "low"
        ELSE result = [ok |-> FALSE, error |-> UnsupportedPersonaError]

C8_Witness ==
    /\ Called
    /\ AllZeroInput
    /\ profile.persona_type = "natural"
    /\ profile.vat_responsible = "yes"
    /\ Breakdown.riskLevel = "low"

\* C9 as claimed: whenever income_cop = 0 and totalProvision = 0, whatever
\* the deductible expenses, riskLevel is "low".
C9_Claimed ==
    (result.ok /\ inputs.income_cop = 0 /\ Breakdown.totalProvision = 0) =>
        Breakdown.riskLevel = "low"

\* C9 as amended: whenever income_cop = 0 and totalProvision = 0, riskLevel
\* is "low" when deductible_expenses_cop = 0 and "high" when it is positive.
C9_ZeroIncome ==
    (result.ok /\ inputs.income_cop = 0 /\ Breakdown.totalProvision = 0) =>
        /\ inputs.deductible_expenses_cop = 0 => Breakdown.riskLevel = "low"
        /\ inputs.deductible_expenses_cop > 0 => Breakdown.riskLevel = "high"

C9_Witness ==
    /\ result.ok
    /\ inputs.income_cop = 0
    /\ inputs.deductible_expenses_cop = 0
    /\ inputs.vat_collected_cop > 0
    /\ inputs.withholdings_cop > 0
    /\ Breakdown.totalProvision = 0
    /\ Breakdown.riskLevel = "low"

\* C10: two calls that agree on persona_type, regimen, vat_responsible,
\* provision_style, income_cop, deductible_expenses_cop and vat_collected_cop
\* return identical results, whatever withholdings_cop, municipality, year
\* and month are, and however many calls went before.
C10_SameSeven ==
    /\ prev.called
    /\ prev.profile.persona_type = profile.persona_type
    /\ prev.profile.regimen = profile.regimen
    /\ prev.profile.vat_responsible = profile.vat_responsible
    /\ prev.profile.provision_style = profile.provision_style
    /\ prev.inputs.income_cop = inputs.income_cop
    /\ prev.inputs.deductible_expenses_cop = inputs.deductible_expenses_cop
    /\ prev.inputs.vat_collected_cop = inputs.vat_collected_cop

C10_SameSevenSameResult == C10_SameSeven => prev.result = result

C10_Witness ==
    /\ C10_SameSeven
    /\ prev.inputs.withholdings_cop # inputs.withholdings_cop
    /\ prev.profile.municipality # profile.municipality
    /\ prev.inputs.year # inputs.year
    /\ prev.inputs.month # inputs.month
    /\ profile.vat_responsible = "yes"
    /\ inputs.vat_collected_cop > 0
    /\ result.ok
    /\ prev.result = result

\* =========================================================================
\* The request payloads: JSON values as JavaScript sees them.
\* =========================================================================
\* A value has a type t.  A number has a kind k: "int" (the integer v),
\* "half" (v + 0.5), "inf" (Infinity, what JSON.parse makes of 1e999) or
\* "nan".  A string is its text s without surrounding whitespace and pad,
\* the count of blanks on each side of it.  A boolean holds 0 or 1 in v.
Undefined == [t |-> "undefined", k |-> "", v |-> 0, s |-> "", pad |-> 0]
Null == [t |-> "null", k |-> "", v |-> 0, s |-> "", pad |-> 0]
Num(n) == [t |-> "number", k |-> "int", v |-> n, s |-> "", pad |-> 0]
Half(n) == [t |-> "number", k |-> "half", v |-> n, s |-> "", pad |-> 0]
Infinity == [t |-> "number", k |-> "inf", v |-> 0, s |-> "", pad |-> 0]
NaN == [t |-> "number", k |-> "nan", v |-> 0, s |-> "", pad |-> 0]
Str(text) == [t |-> "string", k |-> "", v |-> 0, s |-> text, pad |-> 0]
Padded(text) == [t |-> "string", k |-> "", v |-> 0, s |-> text, pad |-> 1]
True == [t |-> "boolean", k |-> "", v |-> 1, s |-> "", pad |-> 0]

\* typeof x === "number" && Number.isInteger(x)
IsInteger(x) == x.t = "number" /\ x.k = "int"

\* Number.isFinite(x)
IsFinite(x) == x.t = "number" /\ x.k \in {"int", "half"}

\* x < 0 for a number x (false for NaN and Infinity).
IsNegative(x) == IsFinite(x) /\ x.v < 0

\* x ?? fallback
Coalesce(x, fallback) == IF x.t \in {"undefined", "null"} THEN fallback ELSE x

\* String.prototype.trim
Trim(x) == [x EXCEPT !.pad = 0]

\* The decimal texts of the payloads and the numbers they denote.
DecimalTexts == ("0" :> 0) @@ ("3" :> 3) @@ ("-3" :> -3)

\* Number(value): numbers as they are, null 0, booleans 0 or 1, undefined
\* NaN, a string by its trimmed text (empty 0, a decimal its value, else NaN).
ToNumber(x) ==
    IF x.t = "number" THEN x
    ELSE IF x.t = "null" THEN Num(0)
    ELSE IF x.t = "boolean" THEN Num(x.v)
    ELSE IF x.t = "string"
    THEN IF x.s = "" THEN Num(0)
         ELSE IF x.s \in DOMAIN DecimalTexts THEN Num(DecimalTexts[x.s])
         ELSE NaN
    ELSE NaN

\* =========================================================================
\* POST /api/taxes/monthly-input: sanitizePayload
\* =========================================================================
\* An upper bound one too high.
isValidMonth_UpTo13(value) == IsInteger(value) /\ value.v >= 1 /\ value.v <= 13

\* An upper bound one too high.
isValidYear_UpTo3001(value) == IsInteger(value) /\ value.v >= 1900 /\ value.v <= 3001

isValidYear(value) == IsInteger(value) /\ value.v >= 1900 /\ value.v <= 3000

isValidMonth(value) == IsInteger(value) /\ value.v >= 1 /\ value.v <= 12

\* A conversion that lets negative numbers through.
toSafeNumeric_AllowNegative(value) ==
    LET parsed == ToNumber(value)
    IN  IF ~IsFinite(parsed) THEN Null ELSE parsed

\* Number(value), or null when that is not finite or is negative.
toSafeNumeric(value) ==
    LET parsed == ToNumber(value)
    IN  IF ~IsFinite(parsed) \/ IsNegative(parsed) THEN Null ELSE parsed

YearAndMonthRequired == "year y month son obligatorios."
YearInvalid == "year invalido."
MonthInvalid == "month invalido (1-12)."
IncomeInvalid == "income_cop invalido."
DeductibleExpensesInvalid == "deductible_expenses_cop invalido."
WithholdingsInvalid == "withholdings_cop invalido."
VatCollectedInvalid == "vat_collected_cop invalido."

\* notes: null when undefined or null, else the trimmed text, null when empty.
NormalizedText(raw) ==
    IF raw.t \in {"undefined", "null"} THEN Null
    ELSE IF Trim(raw).s = "" THEN Null ELSE Trim(raw)

\* The function: {error} or {data}.  year and month of data are integers;
\* the four amounts are the numbers toSafeNumeric returned.
sanitizePayload(payload) ==
    LET incomeCop == toSafeNumeric(Coalesce(payload.income_cop, Num(0)))
        deductibleExpensesCop == toSafeNumeric(Coalesce(payload.deductible_expenses_cop, Num(0)))
        withholdingsCop == toSafeNumeric(Coalesce(payload.withholdings_cop, Num(0)))
        vatCollectedCop == toSafeNumeric(Coalesce(payload.vat_collected_cop, Num(0)))
    IN  IF ~IsInteger(payload.year) \/ ~IsInteger(payload.month)
        THEN [error |-> YearAndMonthRequired]
        ELSE IF ~isValidYear(payload.year) THEN [error |-> YearInvalid]
        ELSE IF ~isValidMonth(payload.month) THEN [error |-> MonthInvalid]
        ELSE IF incomeCop = Null THEN [error |-> IncomeInvalid]
        ELSE IF deductibleExpensesCop = Null THEN [error |-> DeductibleExpensesInvalid]
        ELSE IF withholdingsCop = Null THEN [error |-> WithholdingsInvalid]
        ELSE IF vatCollectedCop = Null THEN [error |-> VatCollectedInvalid]
        ELSE [data |->
                [year |-> payload.year.v,
                 month |-> payload.month.v,
                 income_cop |-> incomeCop,
                 deductible_expenses_cop |-> deductibleExpensesCop,
                 withholdings_cop |-> withholdingsCop,
                 vat_collected_cop |-> vatCollectedCop,
                 notes |-> NormalizedText(payload.notes)]]

\* "error" in sanitized
IsError(sanitized) == "error" \in DOMAIN sanitized

\* ------------------------------------------------ the payloads enumerated
YearValues ==
    {Undefined, Str("2026"), Half(2026), Num(1899), Num(1900), Num(3000), Num(3001)}

MonthValues == {Undefined, Num(0), Num(1), Num(12), Num(13)}

IncomeValues ==
    {Undefined, Null, Num(-1), Num(0), Num(2), Half(1), Infinity, Str("abc"), Padded("3"), True}

MoneyValues == {Undefined, Num(-1), Num(2), Str("abc")}

NotesValues == {Undefined, Padded(""), Padded("memo")}

MonthlyInputPayloads ==
    [year : YearValues,
     month : MonthValues,
     income_cop : IncomeValues,
     deductible_expenses_cop : MoneyValues,
     withholdings_cop : MoneyValues,
     vat_collected_cop : MoneyValues,
     notes : NotesValues]

\* =========================================================================
\* POST /api/taxes/profile: sanitizePayload
\* =========================================================================
validPersonaTypes == {Str(x) : x \in PersonaTypes}
validActivityTypes == {Str("services"), Str("commerce"), Str("mixed"), Str("unknown")}
validRegimenTypes == {Str(x) : x \in Regimens}
validVatResponsibleTypes == {Str(x) : x \in VatResponsibles}
validProvisionStyles == {Str(x) : x \in ProvisionStyles}

PersonaTypeInvalid == "persona_type invalido."
ActivityTypeInvalid == "activity_type invalido."
RegimenInvalid == "regimen invalido."
VatResponsibleInvalid == "vat_responsible invalido."
ProvisionStyleInvalid == "provision_style invalido."
StartDateInvalid == "start_date invalido. Usa formato YYYY-MM-DD."

\* The texts of the payloads that match /^\d{4}-\d{2}-\d{2}$/, as <<y, m, d>>.
IsoDateTexts == ("2026-02-28" :> <<2026, 2, 28>>) @@ ("2026-02-30" :> <<2026, 2, 30>>)

DaysInMonth(y, m) ==
    IF m = 2 THEN (IF y % 4 = 0 /\ (y % 100 # 0 \/ y % 400 = 0) THEN 29 ELSE 28)
    ELSE IF m \in {4, 6, 9, 11} THEN 30 ELSE 31

\* The text matches the pattern and names a day of the calendar (the Date
\* built from it prints back the same text).
isValidIsoDate(value) ==
    /\ value.pad = 0
    /\ value.s \in DOMAIN IsoDateTexts
    /\ LET d == IsoDateTexts[value.s]
       IN  /\ d[2] \in 1..12
           /\ d[3] \in 1..DaysInMonth(d[1], d[2])

\* A default of "unknown" for provision_style too.
DefaultProvisionStyle_Unknown == Str("unknown")

\* payload.provision_style ?? "balanced"
DefaultProvisionStyle == Str("balanced")

\* validPersonaTypes.includes(personaType)
PersonaTypeAccepted(personaType) == personaType \in validPersonaTypes

\* The function: {error} or {data}.
sanitizeProfilePayload(payload) ==
    LET personaType == Coalesce(payload.persona_type, Str("unknown"))
        activityType == Coalesce(payload.activity_type, Str("unknown"))
        regimen == Coalesce(payload.regimen, Str("unknown"))
        vatResponsible == Coalesce(payload.vat_responsible, Str("unknown"))
        provisionStyle == Coalesce(payload.provision_style, DefaultProvisionStyle)
        hasStartDate ==
            /\ payload.start_date.t \notin {"undefined", "null"}
            /\ Trim(payload.start_date).s # ""
    IN  IF ~PersonaTypeAccepted(personaType) THEN [error |-> PersonaTypeInvalid]
        ELSE IF activityType \notin validActivityTypes THEN [error |-> ActivityTypeInvalid]
        ELSE IF regimen \notin validRegimenTypes THEN [error |-> RegimenInvalid]
        ELSE IF vatResponsible \notin validVatResponsibleTypes
        THEN [error |-> VatResponsibleInvalid]
        ELSE IF provisionStyle \notin validProvisionStyles
        THEN [error |-> ProvisionStyleInvalid]
        ELSE IF hasStartDate /\ ~isValidIsoDate(Trim(payload.start_date))
        THEN [error |-> StartDateInvalid]
        ELSE [data |->
                [persona_type |-> personaType.s,
                 activity_type |-> activityType.s,
                 regimen |-> regimen.s,
                 vat_responsible |-> vatResponsible.s,
                 provision_style |-> provisionStyle.s,
                 municipality |-> NormalizedText(payload.municipality),
                 start_date |-> IF hasStartDate THEN Trim(payload.start_date) ELSE Null]]

\* ------------------------------------------------ the payloads enumerated
PersonaValues ==
    {Undefined, Null, Str("natural"), Str("juridica"), Str("unknown"), Str("empresa"),
     Padded("natural")}

ActivityValues == {Undefined, Str("mixed"), Str("farming"), Num(2)}
RegimenValues == {Undefined, Str("simple"), Str("ordinario"), Str("especial")}
VatValues == {Undefined, Str("yes"), Str("no"), Str("maybe")}

StyleValues ==
    {Undefined, Null, Str("conservative"), Str("balanced"), Str("aggressive"), Str("reckless")}

MunicipalityValues == {Undefined, Padded("Bogota"), Padded("")}
StartDateValues == {Undefined, Padded("2026-02-28"), Str("2026-02-30"), Str("28/02/2026")}

TaxProfilePayloads ==
    [persona_type : PersonaValues,
     activity_type : ActivityValues,
     regimen : RegimenValues,
     vat_responsible : VatValues,
     provision_style : StyleValues,
     municipality : MunicipalityValues,
     start_date : StartDateValues]

\* =========================================================================
\* The two sanitizePayload functions applied to the payloads.
\* =========================================================================
NoRow == [absent |-> TRUE]

\* The calculator is not being called.
CalculatorIdle ==
    /\ profile = NoRow
    /\ inputs = NoRow
    /\ result = NoResult
    /\ prev = NoCall

\* A handler holds the parsed body of a request.
InitSanitize ==
    /\ CalculatorIdle
    /\ OthersIdle
    /\ request \in
          [kind : {"monthly-input"}, payload : MonthlyInputPayloads]
              \cup [kind : {"profile"}, payload : TaxProfilePayloads]
    /\ response = NoResponse
    /\ store = {}
    /\ profileStore = {}
    /\ posts = <<>>
    /\ applied = <<>>
    /\ now = <<2026, 11>>

\* const sanitized = sanitizePayload(body ?? {}) of the monthly-input route.
SanitizeMonthlyInput ==
    /\ request.kind = "monthly-input"
    /\ response = NoResponse
    /\ response' = sanitizePayload(request.payload)
    /\ UNCHANGED <<request, store, profileStore, posts, applied, now>>
    /\ UNCHANGED calcVars
    /\ UNCHANGED otherVars

\* const sanitized = sanitizePayload(body ?? {}) of the profile route.
SanitizeProfile ==
    /\ request.kind = "profile"
    /\ response = NoResponse
    /\ response' = sanitizeProfilePayload(request.payload)
    /\ UNCHANGED <<request, store, profileStore, posts, applied, now>>
    /\ UNCHANGED calcVars
    /\ UNCHANGED otherVars

NextSanitize ==
    \/ SanitizeMonthlyInput
    \/ SanitizeProfile

SpecSanitize == InitSanitize /\ [][NextSanitize]_vars

\* ------------------------------------------------------------------ claims
Sanitized == response # NoResponse

MonthlySanitized == request.kind = "monthly-input" /\ Sanitized

ProfileSanitized == request.kind = "profile" /\ Sanitized

\* year is an integer in [1900, 3000], by the values enumerated.
C15_YearOk == request.payload.year \in {Num(1900), Num(3000)}

\* month is an integer in [1, 12], by the values enumerated.
C15_MonthOk == request.payload.month \in {Num(1), Num(12)}

C15_NamesYear == response.error \in {YearInvalid, YearAndMonthRequired}

C15_NamesMonth == response.error \in {MonthInvalid, YearAndMonthRequired}

\* C15 as claimed: a payload whose year is not an integer in [1900, 3000] or
\* whose month is not an integer in [1, 12] is rejected, and the error names
\* only year when year is the violation and only month when month is.
C15_Claimed ==
    (MonthlySanitized /\ (~C15_YearOk \/ ~C15_MonthOk)) =>
        /\ IsError(response)
        /\ (~C15_YearOk /\ C15_MonthOk) => (C15_NamesYear /\ ~C15_NamesMonth)
        /\ (C15_YearOk /\ ~C15_MonthOk) => (C15_NamesMonth /\ ~C15_NamesYear)

\* C15 as amended: such a payload is always rejected; when year and month are
\* both integer numbers the error names only the offending field (year when
\* year is out of range, else month); when year or month is missing or is
\* not an integer number the error is the one message that names both.
C15_YearMonthRejected ==
    (MonthlySanitized /\ (~C15_YearOk \/ ~C15_MonthOk)) =>
        /\ DOMAIN response = {"error"}
        /\ IF request.payload.year \in {Undefined, Str("2026"), Half(2026)}
              \/ request.payload.month \in {Undefined}
           THEN response.error = YearAndMonthRequired
           ELSE IF ~C15_YearOk THEN response.error = YearInvalid
           ELSE response.error = MonthInvalid

C15_Witness ==
    /\ MonthlySanitized
    /\ request.payload.year = Num(3001)
    /\ request.payload.month = Num(12)
    /\ response = [error |-> YearInvalid]

\* The values that are absent, and those that do not convert to a finite
\* number >= 0, among the values enumerated.
C16_Absent == {Undefined, Null}

C16_Unconvertible == {Num(-1), Infinity, Str("abc")}

C16_Fields ==
    <<"income_cop", "deductible_expenses_cop", "withholdings_cop", "vat_collected_cop">>

C16_Errors ==
    <<IncomeInvalid, DeductibleExpensesInvalid, WithholdingsInvalid, VatCollectedInvalid>>

C16_Offending == {n \in 1..4 : request.payload[C16_Fields[n]] \in C16_Unconvertible}

C16_FirstOffending == CHOOSE n \in C16_Offending : \A m \in C16_Offending : n <= m

\* C16: a payload with an unconvertible monetary value yields no normalized
\* record; where year and month pass their checks (which come first) the
\* error names the first offending field in the order income, deductible
\* expenses, withholdings, VAT collected; and an accepted payload has 0 for
\* every absent monetary field.
C16_MoneyFields ==
    MonthlySanitized =>
        /\ C16_Offending # {} => DOMAIN response = {"error"}
        /\ (C16_Offending # {} /\ C15_YearOk /\ C15_MonthOk) =>
              response.error = C16_Errors[C16_FirstOffending]
        /\ (C16_Offending = {} /\ C15_YearOk /\ C15_MonthOk) =>
              /\ DOMAIN response = {"data"}
              /\ \A n \in 1..4 :
                    request.payload[C16_Fields[n]] \in C16_Absent =>
                        response.data[C16_Fields[n]] = Num(0)

C16_Witness ==
    /\ MonthlySanitized
    /\ C15_YearOk
    /\ C15_MonthOk
    /\ request.payload.income_cop = Null
    /\ request.payload.deductible_expenses_cop = Undefined
    /\ request.payload.withholdings_cop = Num(-1)
    /\ request.payload.vat_collected_cop = Str("abc")
    /\ response = [error |-> WithholdingsInvalid]

C17_Fields ==
    <<"persona_type", "activity_type", "regimen", "vat_responsible", "provision_style">>

C17_Errors ==
    <<PersonaTypeInvalid, ActivityTypeInvalid, RegimenInvalid, VatResponsibleInvalid,
      ProvisionStyleInvalid>>

C17_Enums ==
    <<{"natural", "juridica", "unknown"},
      {"services", "commerce", "mixed", "unknown"},
      {"simple", "ordinario", "unknown"},
      {"yes", "no", "unknown"},
      {"conservative", "balanced", "aggressive"}>>

C17_Defaults == <<"unknown", "unknown", "unknown", "unknown", "balanced">>

C17_Value(n) == request.payload[C17_Fields[n]]

C17_Absent(n) == C17_Value(n) \in {Undefined, Null}

C17_Member(n) ==
    /\ C17_Value(n).t = "string"
    /\ C17_Value(n).pad = 0
    /\ C17_Value(n).s \in C17_Enums[n]

C17_Invalid == {n \in 1..5 : ~C17_Absent(n) /\ ~C17_Member(n)}

\* C17: an absent enumerated field takes its default (provision_style
\* "balanced", the others "unknown"); a present value outside the field's
\* enum makes the payload fail with the error of that field (of the first
\* such field in the order of the checks); an accepted profile has every
\* enumerated field inside its enum.
C17_ProfileEnums ==
    ProfileSanitized =>
        /\ C17_Invalid # {} =>
              /\ DOMAIN response = {"error"}
              /\ response.error =
                    C17_Errors[CHOOSE n \in C17_Invalid : \A m \in C17_Invalid : n <= m]
        /\ ~IsError(response) =>
              \A n \in 1..5 :
                  /\ response.data[C17_Fields[n]] \in C17_Enums[n]
                  /\ C17_Absent(n) => response.data[C17_Fields[n]] = C17_Defaults[n]
                  /\ C17_Member(n) => response.data[C17_Fields[n]] = C17_Value(n).s
        /\ (C17_Invalid = {} /\ request.payload.start_date.s # "2026-02-30"
                /\ request.payload.start_date.s # "28/02/2026") => ~IsError(response)

C17_Witness ==
    /\ ProfileSanitized
    /\ request.payload.persona_type = Str("natural")
    /\ request.payload.activity_type = Undefined
    /\ request.payload.regimen = Undefined
    /\ request.payload.vat_responsible = Undefined
    /\ request.payload.provision_style = Null
    /\ ~IsError(response)
    /\ response.data.provision_style = "balanced"
    /\ response.data.regimen = "unknown"

\* =========================================================================
\* POST /api/taxes/monthly-input: the handler and its table
\* =========================================================================
Users == {"u1", "u2"}

\* supabase.auth.getUser() found no user.
Anonymous == "anonymous"

\* The connections on which POST requests arrive; one request at a time on
\* each, requests on different connections run concurrently.
Connections == {"c1", "c2"}

\* request.json() throws a SyntaxError on this body.
BadJson == [syntaxError |-> TRUE]

PostPayload(year, month, income, expenses) ==
    [year |-> year, month |-> month, income_cop |-> income,
     deductible_expenses_cop |-> expenses, withholdings_cop |-> Undefined,
     vat_collected_cop |-> Undefined, notes |-> Undefined]

\* The bodies the requests carry.
PostBodies ==
    {BadJson,
     PostPayload(Num(2026), Num(10), Num(1), Undefined),
     PostPayload(Num(2026), Num(10), Num(2), Num(1)),
     PostPayload(Num(2026), Num(11), Num(1), Num(1)),
     PostPayload(Num(3001), Num(10), Num(1), Num(1)),
     PostPayload(Num(2026), Num(13), Num(1), Num(1)),
     PostPayload(Num(2026), Num(10), Num(-1), Num(1))}

\* The columns of onConflict: "user_id,year,month".
KeyOf(row) == <<row.user_id, row.year, row.month>>

\* { user_id: user.id, ...sanitized.data }
RowToWrite(user, data) ==
    [user_id |-> user, year |-> data.year, month |-> data.month,
     income_cop |-> data.income_cop,
     deductible_expenses_cop |-> data.deductible_expenses_cop,
     withholdings_cop |-> data.withholdings_cop,
     vat_collected_cop |-> data.vat_collected_cop,
     notes |-> data.notes]

\* The stored row: the written columns and the id the table gave the row.
Stored(row, id) ==
    [id |-> id, user_id |-> row.user_id, year |-> row.year, month |-> row.month,
     income_cop |-> row.income_cop,
     deductible_expenses_cop |-> row.deductible_expenses_cop,
     withholdings_cop |-> row.withholdings_cop,
     vat_collected_cop |-> row.vat_collected_cop,
     notes |-> row.notes]

\* The written columns of a stored row.
Written(stored) == RowToWrite(stored.user_id, stored)

\* An upsert that always inserts.
Upserted_InsertOnly(rows, row, newId) == rows \cup {Stored(row, newId)}

\* .upsert(row, { onConflict: "user_id,year,month" }): the row with the same
\* key gets the written columns and keeps its id; else a new row is inserted.
Upserted(rows, row, newId) ==
    LET old == {r \in rows : KeyOf(r) = KeyOf(row)}
    IN  IF old = {}
        THEN rows \cup {Stored(row, newId)}
        ELSE (rows \ old) \cup {Stored(row, r.id) : r \in old}

IdlePost == [pc |-> "idle"]

\* The server is up, the table is empty, no request has arrived.
InitPost ==
    /\ CalculatorIdle
    /\ OthersIdle
    /\ request = NoRequest
    /\ response = NoResponse
    /\ store = {}
    /\ profileStore = {}
    /\ posts = [c \in Connections |-> IdlePost]
    /\ applied = <<>>
    /\ now = <<2026, 10>>

\* POST up to the upsert: getUser, request.json(), sanitizePayload.  It
\* answers 401, 400, or goes on to the upsert with the sanitized data.
ReceivePost(c, caller, body) ==
    /\ posts[c].pc = "idle"
    /\ IF caller = Anonymous
       THEN /\ response' = [status |-> 401, error |-> "No autenticado."]
            /\ UNCHANGED posts
       ELSE IF body = BadJson
       THEN /\ response' = [status |-> 400, error |-> "JSON invalido."]
            /\ UNCHANGED posts
       ELSE IF IsError(sanitizePayload(body))
       THEN /\ response' = [status |-> 400, error |-> sanitizePayload(body).error]
            /\ UNCHANGED posts
       ELSE /\ posts' = [posts EXCEPT ![c] =
                  [pc |-> "upsert", row |-> RowToWrite(caller, sanitizePayload(body).data)]]
            /\ UNCHANGED response
    /\ UNCHANGED <<request, store, profileStore, applied, now>>
    /\ UNCHANGED calcVars
    /\ UNCHANGED otherVars

\* The upsert is applied and the handler answers with the stored row.
Upsert(c) ==
    /\ posts[c].pc = "upsert"
    /\ Len(applied) < MaxWrites
    /\ store' = Upserted(store, posts[c].row, Len(applied) + 1)
    /\ applied' = Append(applied, posts[c].row)
    /\ response' = [status |-> 200,
                    input |-> CHOOSE r \in store' : KeyOf(r) = KeyOf(posts[c].row)]
    /\ posts' = [posts EXCEPT ![c] = IdlePost]
    /\ UNCHANGED <<request, profileStore, now>>
    /\ UNCHANGED calcVars
    /\ UNCHANGED otherVars

\* The upsert returns an error: the handler answers 500.
UpsertFails(c) ==
    /\ posts[c].pc = "upsert"
    /\ response' = [status |-> 500, error |-> "No se pudo guardar el input mensual."]
    /\ posts' = [posts EXCEPT ![c] = IdlePost]
    /\ UNCHANGED <<request, store, profileStore, applied, now>>
    /\ UNCHANGED calcVars
    /\ UNCHANGED otherVars

\* The next calendar month starts.
NextMonth ==
    /\ now = <<2026, 10>>
    /\ \A c \in Connections : posts[c].pc = "idle"
    /\ now' = <<2026, 11>>
    /\ UNCHANGED <<request, response, store, profileStore, posts, applied>>
    /\ UNCHANGED calcVars
    /\ UNCHANGED otherVars

NextPost ==
    \/ \E c \in Connections, caller \in Users \cup {Anonymous}, body \in PostBodies :
          ReceivePost(c, caller, body)
    \/ \E c \in Connections : Upsert(c)
    \/ \E c \in Connections : UpsertFails(c)
    \/ NextMonth

SpecPost == InitPost /\ [][NextPost]_vars

\* ------------------------------------------------------------------ claims
\* year in [1900, 3000], month in [1, 12], the four amounts finite and >= 0.
C18_RowValid(r) ==
    /\ r.year \in 1900..3000
    /\ r.month \in 1..12
    /\ \A f \in {"income_cop", "deductible_expenses_cop", "withholdings_cop",
                 "vat_collected_cop"} :
          /\ r[f].t = "number"
          /\ r[f].k \in {"int", "half"}
          /\ r[f].v >= 0

C18_Rejected == response'.status \in {400, 401} /\ response' # response

\* C18: after any sequence of monthly-input POSTs every stored record has
\* year in [1900, 3000], month in [1, 12] and the four amounts finite and
\* >= 0; a POST answered 400 or 401 leaves the table unchanged.
C18_StoredRowsValid ==
    /\ [](\A r \in store : C18_RowValid(r))
    /\ [][C18_Rejected => store' = store]_vars

C18_Witness ==
    /\ Len(applied) = 2
    /\ Cardinality(store) = 2
    /\ response.status = 400
    /\ response.error = MonthInvalid

C19_LastWriteTo(key) ==
    LET n == CHOOSE n \in 1..Len(applied) :
                 /\ KeyOf(applied[n]) = key
                 /\ \A m \in (n + 1)..Len(applied) : KeyOf(applied[m]) # key
    IN  applied[n]

C19_KeysWritten == {KeyOf(applied[n]) : n \in 1..Len(applied)}

C19_OneRowPerKey ==
    /\ \A r1, r2 \in store : KeyOf(r1) = KeyOf(r2) => r1 = r2
    /\ {KeyOf(r) : r \in store} = C19_KeysWritten
    /\ \A r \in store : Written(r) = C19_LastWriteTo(KeyOf(r))

C19_OtherKeysUntouched ==
    IF applied' = applied
    THEN store' = store
    ELSE \A r \in store : KeyOf(r) # KeyOf(applied'[Len(applied')]) => r \in store'

\* C19: under any interleaving of monthly-input POSTs the table holds at
\* most one record per (user, year, month); the record of a key equals, in
\* every written column, the write to that key applied last; a write leaves
\* the records of every other key and user as they were.
C19_LastWriteWins ==
    /\ []C19_OneRowPerKey
    /\ [][C19_OtherKeysUntouched]_vars

C19_Witness ==
    /\ Len(applied) = 2
    /\ KeyOf(applied[1]) = KeyOf(applied[2])
    /\ applied[1].income_cop # applied[2].income_cop
    /\ applied[1].deductible_expenses_cop # applied[2].deductible_expenses_cop
    /\ Cardinality(store) = 1
    /\ \A r \in store : Written(r) = applied[2]
    /\ \E c \in Connections : posts[c].pc = "upsert"

\* C20 as claimed: once a later month has started, the stored record of an
\* earlier (year, month) is never changed by a monthly-input POST (the month
\* changes while no request is in progress, so the POST that changes it was
\* received after the later month had started).
C20_Claimed ==
    [][\A r \in store : r.year * 12 + r.month < now[1] * 12 + now[2] => r \in store']_vars

\* ============================================================================
\* GET /api/taxes/history: the provisions of the caller's latest months.
\* ============================================================================
MaxBack == 15
MaxAhead == 2

\* Number.parseInt(text, 10) of the query texts used here; any other text
\* has no leading digits and parses to NaN.
ParseIntTexts ==
    ("6" :> 6) @@ ("24" :> 24) @@ ("0" :> 0) @@ ("25" :> 25) @@ ("12abc" :> 12)

parseInt(text) ==
    IF text \in DOMAIN ParseIntTexts
    THEN [nan |-> FALSE, v |-> ParseIntTexts[text]]
    ELSE [nan |-> TRUE]

NoMonths == [null |-> TRUE]
Months_(n) == [null |-> FALSE, value |-> n]

parseMonths(value) ==
    IF value = NULL \/ value = ""
    THEN Months_(6)
    ELSE LET parsed == parseInt(value)
         IN  IF parsed.nan
             THEN NoMonths
             ELSE IF parsed.v < 1 \/ parsed.v > 24
                  THEN NoMonths
                  ELSE Months_(parsed.v)

periodToNumber(year, month) == year * 12 + month

currentPeriodNumber == periodToNumber(now[1], now[2])

\* A window that starts one month too early.
minPeriodNumber_OneMonthEarlier(months) == currentPeriodNumber - months

minPeriodNumber(months) == currentPeriodNumber - (months - 1)

\* The year and month of a period number.
PeriodOf(n) == [year |-> (n - 1) \div 12, month |-> ((n - 1) % 12) + 1]

\* "year, month, income_cop, deductible_expenses_cop, withholdings_cop,
\* vat_collected_cop" of a stored row.
Selected(row) ==
    [year |-> row.year, month |-> row.month,
     income_cop |-> row.income_cop,
     deductible_expenses_cop |-> row.deductible_expenses_cop,
     withholdings_cop |-> row.withholdings_cop,
     vat_collected_cop |-> row.vat_collected_cop]

RowPeriod(row) == periodToNumber(row.year, row.month)

\* .order("year", desc).order("month", desc): the latest row first.
RECURSIVE OrderedDescending(_)
OrderedDescending(rows) ==
    IF rows = {}
    THEN <<>>
    ELSE LET latest == CHOOSE r \in rows : \A q \in rows : RowPeriod(q) <= RowPeriod(r)
         IN  <<latest>> \o OrderedDescending(rows \ {latest})

FetchLimit == 24

Limit(seq, n) == IF Len(seq) <= n THEN seq ELSE SubSeq(seq, 1, n)

\* .eq("user_id", user.id) ... .limit(24) on monthly_tax_inputs_co.
MonthlyRowsOf(user) ==
    Limit(OrderedDescending({Selected(r) : r \in {q \in store : q.user_id = user}}),
          FetchLimit)

\* .eq("user_id", user.id).maybeSingle() on user_tax_profile_co.
ProfilesOf(user) == {p \in profileStore : p.user_id = user}

\* The rows left in the order they were fetched.
SortAscending_Unsorted(seq) == seq

\* Array.prototype.sort with the comparator a - b on period numbers (stable).
RECURSIVE SortAscending(_)
SortAscending(seq) ==
    IF seq = <<>>
    THEN <<>>
    ELSE LET sorted == SortAscending(Tail(seq))
             row == Head(seq)
             before == SelectSeq(sorted, LAMBDA r : RowPeriod(r) < RowPeriod(row))
             after == SelectSeq(sorted, LAMBDA r : RowPeriod(r) >= RowPeriod(row))
         IN  before \o <<row>> \o after

filteredRows(monthlyRows, months) ==
    SortAscending(SelectSeq(monthlyRows,
                            LAMBDA row : RowPeriod(row) >= minPeriodNumber(months)))

NoItem == [null |-> TRUE]

\* An item with empty figures for a row the calculator rejects.
ItemOf_KeepFailed(p, row) ==
    LET res == calculateMonthlyProvisionCO(p, row)
    IN  [year |-> row.year, month |-> row.month,
         income_cop |-> row.income_cop,
         deductible_expenses_cop |-> row.deductible_expenses_cop,
         totalProvision |-> IF res.ok THEN res.breakdown.totalProvision ELSE 0,
         cashAfterProvision |-> IF res.ok THEN res.breakdown.cashAfterProvision ELSE 0,
         riskLevel |-> IF res.ok THEN res.breakdown.riskLevel ELSE "high"]

ItemOf(p, row) ==
    LET res == calculateMonthlyProvisionCO(p, row)
    IN  IF ~res.ok
        THEN NoItem
        ELSE [year |-> row.year, month |-> row.month,
              income_cop |-> row.income_cop,
              deductible_expenses_cop |-> row.deductible_expenses_cop,
              totalProvision |-> res.breakdown.totalProvision,
              cashAfterProvision |-> res.breakdown.cashAfterProvision,
              riskLevel |-> res.breakdown.riskLevel]

\* filteredRows.map(...).filter(item !== null)
ItemsOf(p, rows) ==
    SelectSeq([n \in 1..Len(rows) |-> ItemOf(p, rows[n])], LAMBDA item : item # NoItem)

\* The answer of GET for a query text, a caller and the outcome of the two
\* reads ("none": both succeed).
HistoryResponse(monthsText, caller, storeError) ==
    LET months == parseMonths(monthsText)
    IN  IF months = NoMonths
        THEN [status |-> 400,
              error |-> "Parametro months invalido. Usa un entero entre 1 y 24."]
        ELSE IF caller = Anonymous
        THEN [status |-> 401, error |-> "No autenticado."]
        ELSE IF storeError = "profile"
        THEN [status |-> 500, error |-> "No se pudo obtener el perfil fiscal."]
        ELSE IF ProfilesOf(caller) = {}
        THEN [status |-> 200, items |-> <<>>]
        ELSE IF storeError = "monthly"
        THEN [status |-> 500, error |-> "No se pudo obtener el histórico mensual."]
        ELSE [status |-> 200,
              items |-> ItemsOf(CHOOSE p \in ProfilesOf(caller) : TRUE,
                                filteredRows(MonthlyRowsOf(caller), months.value))]

\* ------------------------------------------------------------ stored tables
\* The row of a period in monthly_tax_inputs_co, as the monthly-input
\* endpoint accepts it: the amounts are whole pesos, none negative.
MonthlyRow(user, n) ==
    [user_id |-> user, year |-> PeriodOf(n).year, month |-> PeriodOf(n).month,
     income_cop |-> n % (MaxAmount + 1),
     deductible_expenses_cop |-> n % 2,
     withholdings_cop |-> 0,
     vat_collected_cop |-> n % 3]

TaxProfileRow(user, persona) ==
    [user_id |-> user, persona_type |-> persona, regimen |-> "simple",
     vat_responsible |-> "yes", provision_style |-> "balanced"]

Span(first, n) == first..(first + n - 1)

SpanLengths == {0, 1, 3, 14}

\* Months the caller never submitted.
Gaps(cur) == {{}, {cur - 1}, {cur - 2, cur - 6}}

\* The sets of periods the caller has rows for: runs of consecutive months
\* that end before, at or after the current month, with or without gaps.
\* Runs that fill the widest window, one of them reaching past the current
\* month.
LongSpans(cur) == {Span(cur - 23, 24), Span(cur - 23, 26)}

PeriodSets(cur) ==
    {Span(first, n) \ gap : first \in (cur - MaxBack)..(cur + MaxAhead),
                            n \in SpanLengths, gap \in Gaps(cur)}
        \cup LongSpans(cur)

MonthsParams == {NULL, "", "6", "24", "0", "25", "abc", "12abc"}

HistoryRequests ==
    [kind : {"history"}, caller : {"u1", Anonymous}, months : MonthsParams,
     storeError : {"none", "profile", "monthly"}]

InitHistory ==
    /\ CalculatorIdle
    /\ OthersIdle
    /\ now = <<2026, 11>>
    /\ request \in HistoryRequests
    /\ response = NoResponse
    /\ store \in {{MonthlyRow("u1", n) : n \in periods} \cup others :
                    periods \in PeriodSets(periodToNumber(2026, 11)),
                    others \in {{}, {MonthlyRow("u2", periodToNumber(2026, 11)),
                                     MonthlyRow("u2", periodToNumber(2026, 12))}}}
    /\ profileStore \in {{TaxProfileRow("u2", "natural")} \cup own :
                           own \in {{}} \cup {{TaxProfileRow("u1", persona)} :
                                               persona \in PersonaTypes}}
    /\ posts = <<>>
    /\ applied = <<>>

GetHistory ==
    /\ request.kind = "history"
    /\ response = NoResponse
    /\ response' = HistoryResponse(request.months, request.caller, request.storeError)
    /\ UNCHANGED <<request, store, profileStore, posts, applied, now>>
    /\ UNCHANGED calcVars
    /\ UNCHANGED otherVars

NextHistory == GetHistory

SpecHistory == InitHistory /\ [][NextHistory]_vars

\* ------------------------------------------------------------------ claims
HistoryAnswered == request.kind = "history" /\ response # NoResponse

HistoryServed == HistoryAnswered /\ response.status = 200

\* The periods of the caller's stored rows.
OwnPeriods == {RowPeriod(r) : r \in {q \in store : q.user_id = request.caller}}

ItemPeriods ==
    [n \in 1..Len(response.items) |-> RowPeriod(response.items[n])]

IsSpan(periods, n) ==
    /\ Cardinality(periods) = n
    /\ \E first \in periods : periods = Span(first, n)

Latest(periods) == CHOOSE p \in periods : \A q \in periods : q <= p

\* A natural-person caller with 14 consecutive stored months asks for 6.
C11_Case ==
    /\ HistoryAnswered
    /\ request.caller = "u1"
    /\ request.storeError = "none"
    /\ request.months = "6"
    /\ TaxProfileRow("u1", "natural") \in profileStore
    /\ IsSpan(OwnPeriods, 14)

C11_SixLatest ==
    /\ response.status = 200
    /\ ItemPeriods = [n \in 1..6 |-> Latest(OwnPeriods) - 6 + n]

\* C11 as claimed: wherever the 14 stored months lie, months = 6 returns the
\* 6 most recent of them, ascending.
C11_Claimed == C11_Case => C11_SixLatest

\* C11: for a natural-person profile with records for 14 consecutive months
\* the last of which is the current calendar month, a history request with
\* months = 6 returns exactly the 6 most recent of them, ascending.
C11_WindowOfSix ==
    C11_Case /\ Latest(OwnPeriods) = currentPeriodNumber => C11_SixLatest

C11_Witness ==
    /\ C11_Case
    /\ Latest(OwnPeriods) = currentPeriodNumber
    /\ Len(response.items) = 6
    /\ response.items[1].year = 2026 /\ response.items[1].month = 6
    /\ response.items[6].year = 2026 /\ response.items[6].month = 11

\* C12 as claimed: every item of a history response for window w has a
\* period number between currentPeriod - (w - 1) and currentPeriod.
C12_Claimed ==
    HistoryServed =>
        \A n \in 1..Len(response.items) :
            /\ ItemPeriods[n] >= currentPeriodNumber - (parseMonths(request.months).value - 1)
            /\ ItemPeriods[n] <= currentPeriodNumber

\* C13: the items of every history response are in strictly ascending
\* (year, month) order, so no period appears twice.
C13_Ascending ==
    HistoryServed =>
        \A n, m \in 1..Len(response.items) : n < m => ItemPeriods[n] < ItemPeriods[m]

C13_Witness ==
    /\ HistoryServed
    /\ Len(response.items) = 5
    /\ ItemPeriods[4] = currentPeriodNumber - 2
    /\ ItemPeriods[5] = currentPeriodNumber
    /\ ItemPeriods[1] < ItemPeriods[2]

C14_UnsupportedProfile ==
    \E p \in profileStore : p.user_id = request.caller /\ p.persona_type # "natural"

C14_FromOkResult(item) ==
    \E p \in profileStore, r \in store :
        /\ p.user_id = request.caller
        /\ r.user_id = request.caller
        /\ calculateMonthlyProvisionCO(p, Selected(r)).ok
        /\ item = ItemOf(p, Selected(r))

\* C14: when the caller's profile is not a natural person (the calculator
\* fails for every record) and both reads succeed, a history request with a
\* valid months answers status 200 with an empty items list whatever rows
\* are stored; every item of every response comes from a calculator result
\* with ok = true.
C14_FailedRowsDropped ==
    /\ ( /\ HistoryAnswered
         /\ request.caller # Anonymous
         /\ request.storeError = "none"
         /\ parseMonths(request.months) # NoMonths
         /\ C14_UnsupportedProfile )
       => response = [status |-> 200, items |-> <<>>]
    /\ HistoryServed =>
         \A n \in 1..Len(response.items) : C14_FromOkResult(response.items[n])

C14_Witness ==
    /\ HistoryAnswered
    /\ request.caller = "u1"
    /\ request.storeError = "none"
    /\ request.months = "24"
    /\ TaxProfileRow("u1", "juridica") \in profileStore
    /\ IsSpan(OwnPeriods, 14)
    /\ Latest(OwnPeriods) = currentPeriodNumber
    /\ response = [status |-> 200, items |-> <<>>]

\* C28 as claimed: for a natural-person profile every stored record of the
\* caller whose period lies between currentPeriod - (months - 1) and
\* currentPeriod appears exactly once in the items.
C28_Claimed ==
    ( /\ HistoryServed
      /\ request.caller = "u1"
      /\ request.storeError = "none"
      /\ TaxProfileRow("u1", "natural") \in profileStore )
    => \A p \in OwnPeriods :
          ( /\ p >= currentPeriodNumber - (parseMonths(request.months).value - 1)
            /\ p <= currentPeriodNumber )
          => Cardinality({n \in 1..Len(response.items) : ItemPeriods[n] = p}) = 1

\* ============================================================================
\* The canonical calculator without VAT.
\* ============================================================================
\* C30: for a natural-person profile whose vat_responsible is "no" or
\* "unknown" the calculator reports riskLevel "high" exactly when
\* deductible_expenses_cop > income_cop, whatever the regimen and style.
C30_HighOnlyOnOverspend ==
    (Called /\ result.ok /\ profile.vat_responsible \in {"no", "unknown"}) =>
        (Breakdown.riskLevel = "high"
            <=> inputs.deductible_expenses_cop > inputs.income_cop)

C30_Witness ==
    /\ Called
    /\ result.ok
    /\ profile.vat_responsible = "unknown"
    /\ profile.regimen = "ordinario"
    /\ profile.provision_style = "conservative"
    /\ inputs.vat_collected_cop = MaxAmount
    /\ inputs.income_cop = MaxAmount
    /\ inputs.deductible_expenses_cop = 0
    /\ Breakdown.riskLevel = "low"

\* ============================================================================
\* The alternate calculator (the second calculateMonthlyProvisionCO of the
\* repository) next to the canonical one.
\* ============================================================================
\* Math.max(vat_collected_cop - withholdings_cop, 0) when vat_responsible is
\* "yes", otherwise 0; in units of 1/Scale peso.
altIvaProvisionOf(p, i) ==
    IF p.vat_responsible = "yes"
    THEN Max(i.vat_collected_cop - i.withholdings_cop, 0) * Scale
    ELSE 0

altBaseOf(i) == Max(i.income_cop - i.deductible_expenses_cop, 0)

\* A rate table that gives regimen "unknown" the rate of "simple".
altRentaRate_UnknownAsSimple(regimen) ==
    IF regimen = "ordinario" THEN 10 ELSE 5

\* simple 0.05, ordinario 0.1, otherwise 0.08; in hundredths.
altRentaRate(regimen) ==
    IF regimen = "simple" THEN 5
    ELSE IF regimen = "ordinario" THEN 10
    ELSE 8

\* base * rentaRate, in units of 1/Scale peso.
altRentaProvisionOf(p, i) == altBaseOf(i) * altRentaRate(p.regimen) * 100

altTotalProvisionOf(p, i) == altRentaProvisionOf(p, i) + altIvaProvisionOf(p, i)

\* high: totalProvision > 0 and income 0; medium: totalProvision > 0 and
\* base < 0.2 * income; otherwise low.
altRiskLevelOf(p, i) ==
    IF altTotalProvisionOf(p, i) > 0 /\ i.income_cop = 0 THEN "high"
    ELSE IF altTotalProvisionOf(p, i) > 0 /\ altBaseOf(i) * 100 < 20 * i.income_cop
         THEN "medium"
    ELSE "low"

calculateMonthlyProvisionCO_Alternate(p, i) ==
    IF p.persona_type # "natural"
    THEN [ok |-> FALSE, error |-> "Solo se soporta persona natural en esta version MVP."]
    ELSE [ok |-> TRUE,
          breakdown |->
            [ivaProvision |-> altIvaProvisionOf(p, i),
             base |-> altBaseOf(i),
             rentaProvision |-> altRentaProvisionOf(p, i),
             totalProvision |-> altTotalProvisionOf(p, i),
             riskLevel |-> altRiskLevelOf(p, i)]]

\* A caller holds a profile row and a monthly row and has called neither
\* calculator.
InitVariants ==
    /\ profile \in Profiles
    /\ inputs \in MonthlyInputs
    /\ Undeclared \in UndeclaredFields
    /\ result = NoResult
    /\ prev = NoCall
    /\ HandlersIdle
    /\ OthersIdle

CalculateCanonical ==
    /\ result = NoResult
    /\ result' = calculateMonthlyProvisionCO(profile, inputs)
    /\ UNCHANGED <<profile, inputs, prev, altResult>>
    /\ UNCHANGED handlerVars
    /\ UNCHANGED <<panel, form>>
    /\ UNCHANGED chatVars

CalculateAlternate ==
    /\ altResult = NoResult
    /\ altResult' = calculateMonthlyProvisionCO_Alternate(profile, inputs)
    /\ UNCHANGED calcVars
    /\ UNCHANGED handlerVars
    /\ UNCHANGED <<panel, form>>
    /\ UNCHANGED chatVars

NextVariants ==
    \/ CalculateCanonical
    \/ CalculateAlternate

SpecVariants == InitVariants /\ [][NextVariants]_vars

BothCalled == result # NoResult /\ altResult # NoResult

\* C29: for every profile with provision_style "balanced" and every input
\* with withholdings_cop = 0 both calculators return the same ok flag and
\* the same ivaProvision, base, rentaProvision and totalProvision; and for
\* all inputs the alternate ivaProvision never exceeds the canonical one.
C29_VariantsAgree ==
    BothCalled =>
        /\ (profile.provision_style = "balanced" /\ inputs.withholdings_cop = 0) =>
              /\ altResult.ok = result.ok
              /\ result.ok =>
                    /\ altResult.breakdown.ivaProvision = result.breakdown.ivaProvision
                    /\ altResult.breakdown.base = result.breakdown.base
                    /\ altResult.breakdown.rentaProvision = result.breakdown.rentaProvision
                    /\ altResult.breakdown.totalProvision = result.breakdown.totalProvision
        /\ (result.ok /\ altResult.ok) =>
              altResult.breakdown.ivaProvision <= result.breakdown.ivaProvision

C29_Witness ==
    /\ BothCalled
    /\ result.ok
    /\ profile.provision_style = "balanced"
    /\ profile.regimen = "unknown"
    /\ profile.vat_responsible = "yes"
    /\ inputs.withholdings_cop = 0
    /\ inputs.vat_collected_cop > 0
    /\ result.breakdown.base > 0
    /\ altResult.breakdown.totalProvision = result.breakdown.totalProvision

\* ============================================================================
\* The chat page: the estimate panel (loadEstimate) and the tax form
\* (handleSaveTaxData), with the three endpoints they call.
\* ============================================================================
CompleteMonthData == "Completa tus datos del mes para calcular."

\* The row of user_tax_profile_co the profile endpoint writes.
StoredProfile(user, data) ==
    [user_id |-> user, persona_type |-> data.persona_type,
     activity_type |-> data.activity_type, regimen |-> data.regimen,
     vat_responsible |-> data.vat_responsible,
     provision_style |-> data.provision_style,
     municipality |-> data.municipality, start_date |-> data.start_date]

\* .upsert(row, { onConflict: "user_id" })
ProfileUpserted(rows, row) == {r \in rows : r.user_id # row.user_id} \cup {row}

\* The monthly row as the calculator reads it: the numeric columns as numbers.
CalculatorInputs(row) ==
    [year |-> row.year, month |-> row.month,
     income_cop |-> row.income_cop.v,
     deductible_expenses_cop |-> row.deductible_expenses_cop.v,
     withholdings_cop |-> row.withholdings_cop.v,
     vat_collected_cop |-> row.vat_collected_cop.v]

\* .eq("user_id", user.id).eq("year", year).eq("month", month).maybeSingle()
CurrentInputsOf(user) ==
    {r \in store : r.user_id = user /\ r.year = now[1] /\ r.month = now[2]}

\* GET /api/taxes/estimate for a caller and the outcome of the two reads
\* ("none": both succeed).
EstimateResponse(caller, storeError) ==
    IF caller = Anonymous
    THEN [status |-> 401, error |-> "No autenticado."]
    ELSE IF storeError = "profile"
    THEN [status |-> 500, error |-> "No se pudo obtener el perfil fiscal."]
    ELSE IF ProfilesOf(caller) = {}
    THEN [status |-> 400, error |-> CompleteMonthData]
    ELSE IF storeError = "monthly"
    THEN [status |-> 500, error |-> "No se pudo obtener el input mensual."]
    ELSE IF CurrentInputsOf(caller) = {}
    THEN [status |-> 400, error |-> CompleteMonthData]
    ELSE LET p == CHOOSE r \in ProfilesOf(caller) : TRUE
             i == CalculatorInputs(CHOOSE r \in CurrentInputsOf(caller) : TRUE)
             res == calculateMonthlyProvisionCO(p, i)
         IN  IF ~res.ok
             THEN [status |-> 400, error |-> res.error]
             ELSE [status |-> 200,
                   period |-> [year |-> now[1], month |-> now[2]],
                   profile |-> [persona_type |-> p.persona_type, regimen |-> p.regimen,
                                vat_responsible |-> p.vat_responsible,
                                provision_style |-> p.provision_style,
                                municipality |-> p.municipality],
                   inputs |-> [income_cop |-> i.income_cop,
                               deductible_expenses_cop |-> i.deductible_expenses_cop,
                               withholdings_cop |-> i.withholdings_cop,
                               vat_collected_cop |-> i.vat_collected_cop],
                   breakdown |-> res.breakdown]

NoEstimate == [null |-> TRUE]
NoError == ""

\* What the page sets after the estimate response: setEstimate and
\* setEstimateError.
PanelAfter(resp) ==
    IF resp.status = 200
    THEN [shown |-> TRUE, estimate |-> resp.breakdown, error |-> NoError]
    ELSE IF resp.status = 400
    THEN [shown |-> TRUE, estimate |-> NoEstimate,
          error |-> "Completa tus datos del mes para calcular."]
    ELSE [shown |-> TRUE, estimate |-> NoEstimate,
          error |-> "No se pudo cargar la provisión estimada."]

\* The body of the profile POST: the form sends no persona_type.
ProfileBodyOf(f) ==
    [persona_type |-> Undefined, activity_type |-> Undefined,
     regimen |-> Str(f.regimen), vat_responsible |-> Str(f.vatResponsible),
     provision_style |-> Str(f.provisionStyle),
     municipality |-> IF f.municipality = "" THEN Null ELSE Str(f.municipality),
     start_date |-> Undefined]

\* Number(text || 0)
FormNumber(text) == ToNumber(Str(text))

\* The body of the monthly-input POST.
MonthlyBodyOf(f) ==
    [year |-> Num(now[1]), month |-> Num(now[2]),
     income_cop |-> FormNumber(f.incomeCop),
     deductible_expenses_cop |-> FormNumber(f.deductibleExpensesCop),
     withholdings_cop |-> FormNumber(f.withholdingsCop),
     vat_collected_cop |-> FormNumber(f.vatCollectedCop),
     notes |-> Undefined]

FormAmounts(f) ==
    {FormNumber(f.incomeCop), FormNumber(f.deductibleExpensesCop),
     FormNumber(f.withholdingsCop), FormNumber(f.vatCollectedCop)}

\* ------------------------------------------------------------ what is drawn
PageProfile(user, persona) ==
    StoredProfile(user, [persona_type |-> persona, activity_type |-> "unknown",
                         regimen |-> "ordinario", vat_responsible |-> "no",
                         provision_style |-> "aggressive", municipality |-> Null,
                         start_date |-> Null])

PageMonthlyRow(user, year, month) ==
    Stored([user_id |-> user, year |-> year, month |-> month,
            income_cop |-> Num(MaxAmount), deductible_expenses_cop |-> Num(1),
            withholdings_cop |-> Num(0), vat_collected_cop |-> Num(1),
            notes |-> Null], 1)

Forms ==
    [pc : {"open"}, session : {"u1", Anonymous},
     regimen : {"simple", "unknown"}, vatResponsible : {"yes", "no"},
     provisionStyle : {"balanced", "conservative"}, municipality : {"", "Bogota"},
     incomeCop : {"3", "", "abc", "-3"}, deductibleExpensesCop : {"0", "3"},
     withholdingsCop : {"0"}, vatCollectedCop : {"0", "3"}]

InitPage ==
    /\ CalculatorIdle
    /\ now = <<2026, 11>>
    /\ request = NoRequest
    /\ response = NoResponse
    /\ store \in {{}, {PageMonthlyRow("u1", 2026, 11)}, {PageMonthlyRow("u1", 2026, 10)}}
    /\ profileStore \in {{}} \cup {{PageProfile("u1", persona)} : persona \in PersonaTypes}
    /\ posts = <<>>
    /\ applied = <<>>
    /\ altResult = NoResult
    /\ panel = NoPanel
    /\ form \in Forms
    /\ requestLog = <<>>
    /\ allowedLog = <<>>
    /\ conversations = {}
    /\ messages = <<>>
    /\ chats = <<>>
    /\ demoMode = FALSE
    /\ clock = 0

pageUnchanged ==
    /\ UNCHANGED calcVars
    /\ UNCHANGED <<posts, applied, now, altResult>>
    /\ UNCHANGED chatVars

\* loadEstimate: the page opens, fetches the estimate and sets the panel.
LoadEstimate(storeError) ==
    /\ form.pc = "open"
    /\ panel = NoPanel
    /\ request' = [kind |-> "estimate", caller |-> form.session, storeError |-> storeError]
    /\ response' = EstimateResponse(form.session, storeError)
    /\ panel' = PanelAfter(response')
    /\ UNCHANGED <<form, store, profileStore>>
    /\ pageUnchanged

\* handleSaveTaxData up to Promise.all: the checks on the four amounts, then
\* both POSTs are sent.
StartSave ==
    /\ form.pc = "open"
    /\ IF \E x \in FormAmounts(form) : ~IsFinite(x)
       THEN form' = [form EXCEPT !.pc = "failed"] @@
                        [taxError |-> "Los valores del mes deben ser numericos."]
       ELSE IF \E x \in FormAmounts(form) : IsNegative(x)
       THEN form' = [form EXCEPT !.pc = "failed"] @@
                        [taxError |-> "Los valores del mes no pueden ser negativos."]
       ELSE form' = [form EXCEPT !.pc = "saving"] @@
                        [profileResponse |-> NoResponse, monthlyResponse |-> NoResponse]
    /\ UNCHANGED <<request, response, panel, store, profileStore>>
    /\ pageUnchanged

\* POST /api/profile/tax-co with the form's body.
PostProfile(fails) ==
    /\ form.pc = "saving"
    /\ form.profileResponse = NoResponse
    /\ LET sanitized == sanitizeProfilePayload(ProfileBodyOf(form))
           row == StoredProfile(form.session, sanitized.data)
       IN  IF form.session = Anonymous
           THEN /\ form' = [form EXCEPT !.profileResponse =
                               [status |-> 401, error |-> "No autenticado."]]
                /\ UNCHANGED profileStore
           ELSE IF IsError(sanitized)
           THEN /\ form' = [form EXCEPT !.profileResponse =
                               [status |-> 400, error |-> sanitized.error]]
                /\ UNCHANGED profileStore
           ELSE IF fails
           THEN /\ form' = [form EXCEPT !.profileResponse =
                               [status |-> 500,
                                error |-> "No se pudo guardar el perfil tributario."]]
                /\ UNCHANGED profileStore
           ELSE /\ profileStore' = ProfileUpserted(profileStore, row)
                /\ form' = [form EXCEPT !.profileResponse =
                               [status |-> 200, profile |-> row]]
    /\ UNCHANGED <<request, response, panel, store>>
    /\ pageUnchanged

\* POST /api/taxes/monthly-input with the form's body.
PostMonthly(fails) ==
    /\ form.pc = "saving"
    /\ form.monthlyResponse = NoResponse
    /\ LET sanitized == sanitizePayload(MonthlyBodyOf(form))
           row == RowToWrite(form.session, sanitized.data)
       IN  IF form.session = Anonymous
           THEN /\ form' = [form EXCEPT !.monthlyResponse =
                               [status |-> 401, error |-> "No autenticado."]]
                /\ UNCHANGED store
           ELSE IF IsError(sanitized)
           THEN /\ form' = [form EXCEPT !.monthlyResponse =
                               [status |-> 400, error |-> sanitized.error]]
                /\ UNCHANGED store
           ELSE IF fails
           THEN /\ form' = [form EXCEPT !.monthlyResponse =
                               [status |-> 500,
                                error |-> "No se pudo guardar el input mensual."]]
                /\ UNCHANGED store
           ELSE /\ store' = Upserted(store, row, Cardinality(store) + 1)
                /\ form' = [form EXCEPT !.monthlyResponse =
                               [status |-> 200,
                                input |-> CHOOSE r \in store' : KeyOf(r) = KeyOf(row)]]
    /\ UNCHANGED <<request, response, panel, profileStore>>
    /\ pageUnchanged

\* handleSaveTaxData after Promise.all: a failed POST ends it with its error;
\* otherwise it fetches the estimate and sets the panel.
FinishSave(storeError) ==
    /\ form.pc = "saving"
    /\ form.profileResponse # NoResponse
    /\ form.monthlyResponse # NoResponse
    /\ IF form.profileResponse.status # 200
       THEN /\ form' = [form EXCEPT !.pc = "failed"] @@
                           [taxError |-> form.profileResponse.error]
            /\ UNCHANGED <<request, response, panel>>
       ELSE IF form.monthlyResponse.status # 200
       THEN /\ form' = [form EXCEPT !.pc = "failed"] @@
                           [taxError |-> form.monthlyResponse.error]
            /\ UNCHANGED <<request, response, panel>>
       ELSE /\ form' = [form EXCEPT !.pc = "saved"]
            /\ request' = [kind |-> "estimate", caller |-> form.session,
                           storeError |-> storeError]
            /\ response' = EstimateResponse(form.session, storeError)
            /\ panel' = PanelAfter(response')
    /\ UNCHANGED <<store, profileStore>>
    /\ pageUnchanged

NextPage ==
    \/ \E storeError \in {"none", "profile", "monthly"} : LoadEstimate(storeError)
    \/ StartSave
    \/ \E fails \in BOOLEAN : PostProfile(fails)
    \/ \E fails \in BOOLEAN : PostMonthly(fails)
    \/ \E storeError \in {"none", "profile", "monthly"} : FinishSave(storeError)

SpecPage == InitPage /\ [][NextPage]_vars

\* ------------------------------------------------------------------ claims
\* The panel after a missing profile or a missing monthly input.
MissingPrerequisitePanel ==
    [shown |-> TRUE, estimate |-> NoEstimate, error |-> CompleteMonthData]

\* The panel shows the answer to an estimate request that the calculator
\* rejected for the persona type.
UnsupportedProfileRejected ==
    /\ panel.shown
    /\ request.kind = "estimate"
    /\ response.status = 400
    /\ response.error = UnsupportedPersonaError

\* C21 as claimed: the panel after an unsupported-profile rejection differs
\* from the panel after a missing profile or a missing monthly input.
C21_Claimed == UnsupportedProfileRejected => panel # MissingPrerequisitePanel

\* C25 as claimed: after handleSaveTaxData finished with both POSTs answered
\* 200 (and the estimate's two reads succeeding), the estimate request it
\* issued answered 200 and the panel shows the breakdown of the saved values.
C25_Claimed ==
    (form.pc = "saved" /\ request.storeError = "none") =>
        /\ response.status = 200
        /\ panel.estimate # NoEstimate

\* =========================================================================
\* POST /api/chat: the in-memory rate limiter
\* =========================================================================
\* checkRateLimit(clientIp, 20, 60_000) in the chat handler.
ChatRateLimit == 20

ChatRateWindowMs == 60000

\* The request headers the limiter looks at: x-forwarded-for as the list of
\* its comma-separated entries (<<>> when the header is absent) and
\* x-real-ip ("" when absent).
Headers ==
    { [xForwardedFor |-> <<"ip1", "proxy">>, xRealIp |-> "ip2"],
      [xForwardedFor |-> <<>>, xRealIp |-> "ip2"],
      [xForwardedFor |-> <<>>, xRealIp |-> ""] }

getClientIp(headers) ==
    IF headers.xForwardedFor # <<>> /\ Head(headers.xForwardedFor) # ""
    THEN Head(headers.xForwardedFor)
    ELSE IF headers.xRealIp # "" THEN headers.xRealIp
    ELSE "unknown"

ClientKeys == {getClientIp(h) : h \in Headers}

\* requestLog.get(key) ?? []
LogOf(log, key) == IF key \in DOMAIN log THEN log[key] ELSE <<>>

\* Math.ceil(ms / 1000) for ms >= 0.
CeilSeconds(ms) == (ms + 999) \div 1000

\* recentRequests.length > limit: one request too many is let through.
LimitReached_OneLate(recentRequests, limit) == Len(recentRequests) > limit

\* recentRequests.length >= limit
LimitReached(recentRequests, limit) == Len(recentRequests) >= limit

\* checkRateLimit(key, limit, windowMs) called at instant t on the map log:
\* its result, and the map it leaves behind in field log.
checkRateLimit(log, key, limit, windowMs, t) ==
    LET windowStart == t - windowMs
        recentRequests == SelectSeq(LogOf(log, key), LAMBDA s : s > windowStart)
    IN  IF LimitReached(recentRequests, limit)
        THEN LET oldestInWindow == IF recentRequests # <<>> THEN recentRequests[1] ELSE t
                 resetInMs == Max(windowMs - (t - oldestInWindow), 0)
             IN  [allowed |-> FALSE, remaining |-> 0,
                  resetInSeconds |-> CeilSeconds(resetInMs),
                  log |-> (key :> recentRequests) @@ log]
        ELSE LET pushed == Append(recentRequests, t)
             IN  [allowed |-> TRUE,
                  remaining |-> Max(limit - Len(pushed), 0),
                  resetInSeconds |-> CeilSeconds(windowMs),
                  log |-> (key :> pushed) @@ log]

\* =========================================================================
\* POST /api/chat: the handler, the conversations and the messages
\* =========================================================================
\* MAX_MESSAGE_LENGTH of lib/config.
MAX_MESSAGE_LENGTH == 2000

\* .limit(10) of the history read.
ContextLimit == 10

\* How many requests each connection sends.
MaxChats == 1

\* user_id of a conversation or message stored in demo mode.
NullUser == "null"

\* The request that stored a row: the n-th request of connection c; rows
\* that were in the tables before carry SeedRequest.
Req(c, n) == [c |-> c, n |-> n]

SeedRequest == Req("seed", 0)

ConversationRow(id, userId, by) == [id |-> id, user_id |-> userId, by |-> by]

MessageRow(conversationId, role, content, userId, by) ==
    [conversation_id |-> conversationId, role |-> role, content |-> content,
     user_id |-> userId, by |-> by]

\* The ids the store gives to conversations created by the handler.
NewConversationIds == <<"n1", "n2", "n3", "n4", "n5", "n6", "n7", "n8">>

CreatedConversations == {k \in conversations : k.by # SeedRequest}

NextConversationId == NewConversationIds[Cardinality(CreatedConversations) + 1]

\* A message text, by its content after trim() and the length of that.
Text(content, length) == [content |-> content, length |-> length]

\* The requested conversation is not looked at.
RequestedConversation_Ignored(body) == ""

\* body.conversationId?.trim() || null, with "" for null.
RequestedConversation(body) == body.conversationId

ChatBody(conversationId, message) ==
    [conversationId |-> conversationId, message |-> message]

\* The conversations stored before: k1 of user u1 with count earlier
\* messages, k0 created in demo mode with one exchange.
SeedConversations ==
    {ConversationRow("k1", "u1", SeedRequest), ConversationRow("k0", NullUser, SeedRequest)}

SeedContents == <<"m1", "m2", "m3", "m4", "m5", "m6", "m7", "m8", "m9", "m10", "m11", "m12", "m13", "m14">>

SeedMessages(count) ==
    [i \in 1..count |->
        MessageRow("k1", IF i % 2 = 1 THEN "user" ELSE "assistant",
                   SeedContents[i], "u1", SeedRequest)]
    \o << MessageRow("k0", "user", "d1", NullUser, SeedRequest),
          MessageRow("k0", "assistant", "d2", NullUser, SeedRequest) >>

RECURSIVE Reverse(_)
Reverse(seq) ==
    IF seq = <<>> THEN <<>> ELSE Append(Reverse(Tail(seq)), Head(seq))

\* The messages of a conversation in the order of created_at.
MessagesOf(conversationId) ==
    SelectSeq(messages, LAMBDA m : m.conversation_id = conversationId)

\* .limit(10) applied to the oldest rows instead of the latest.
ChatHistoryOf_OldestTen(conversationId) ==
    Limit(MessagesOf(conversationId), ContextLimit)

\* .order("created_at", { ascending: false }).limit(10), then reverse().
ChatHistoryOf(conversationId) ==
    Reverse(Limit(Reverse(MessagesOf(conversationId)), ContextLimit))

ContextLine(label, content) == [label |-> label, content |-> content]

\* history.map(...) and contextLines.push(`Usuario: ${message}`).
contextLines(history, message) ==
    [i \in 1..Len(history) |->
        ContextLine(IF history[i].role = "assistant" THEN "Asistente" ELSE "Usuario",
                    history[i].content)]
    \o <<ContextLine("Usuario", message)>>

\* The lookup ignores the owner of the conversation.
ConversationFound_AnyOwner(conversationId, allowAnonymousChat, authenticatedUserId) ==
    \E k \in conversations : k.id = conversationId

\* .eq("id", conversationId) and .is("user_id", null) in demo mode,
\* .eq("user_id", authenticatedUserId) otherwise.
ConversationFound(conversationId, allowAnonymousChat, authenticatedUserId) ==
    \E k \in conversations :
        /\ k.id = conversationId
        /\ IF allowAnonymousChat THEN k.user_id = NullUser
           ELSE k.user_id = authenticatedUserId

\* An empty reply is taken for a reply.
ReplyMissing_Never(reply) == FALSE

\* !reply
ReplyMissing(reply) == reply = ""

\* What the model call can do: answer with a text, answer with no text, or
\* throw a timeout, an authentication error, a model-not-found error or
\* any other error.
ModelOutcomes == {"reply", "empty", "timeout", "auth", "notfound", "error"}

ModelFailure(outcome) ==
    IF outcome = "timeout" THEN [status |-> 504, error |-> "OpenAI timeout"]
    ELSE IF outcome = "auth" THEN [status |-> 502, error |-> "OpenAI auth error"]
    ELSE IF outcome = "notfound" THEN [status |-> 502, error |-> "Model not found"]
    ELSE [status |-> 502, error |-> "Error generando respuesta con OpenAI."]

\* A connection with no request yet.  Besides the handler's variables it
\* records who sent the request (caller), what it asked for (requested),
\* whether the limiter
\* denied it, the conversations whose messages it read (read), what the
\* conversation held when its history was read (stored) and what the model
\* call did (outcome).
IdleChat ==
    [pc |-> "idle", n |-> 0, key |-> "", denied |-> FALSE, caller |-> "",
     userId |-> "",
     requested |-> "", message |-> "", conversationId |-> "",
     created |-> FALSE, history |-> <<>>, context |-> <<>>, read |-> {},
     stored |-> <<>>,
     outcome |-> "", reply |-> "", response |-> NoResponse]

ChatError(status, error) == [status |-> status, error |-> error]

\* The handler of connection c returns resp.
Answer(c, resp) ==
    chats' = [chats EXCEPT ![c] = [@ EXCEPT !.pc = "idle", !.response = resp]]

ThisRequest(c) == Req(c, chats[c].n)

\* The handler up to its first store access: the limiter, the body and the
\* session; OPENAI_API_KEY is set and getUser() itself does not fail.
ReceiveChat(c, headers, caller, body) ==
    /\ chats[c].pc = "idle"
    /\ chats[c].n < MaxChats
    /\ LET clientIp == getClientIp(headers)
           rateLimit == checkRateLimit(requestLog, clientIp, ChatRateLimit, ChatRateWindowMs, clock)
           allowAnonymousChat == demoMode
           started == [IdleChat EXCEPT !.n = chats[c].n + 1, !.key = clientIp,
                                       !.caller = caller]
           answered(resp) == [started EXCEPT !.response = resp]
       IN  /\ requestLog' = rateLimit.log
           /\ allowedLog' =
                 IF rateLimit.allowed
                 THEN (clientIp :> Append(LogOf(allowedLog, clientIp), clock)) @@ allowedLog
                 ELSE allowedLog
           /\ chats' = [chats EXCEPT ![c] =
                 IF ~rateLimit.allowed
                 THEN [answered(ChatError(429, "Rate limit exceeded")) EXCEPT !.denied = TRUE]
                 ELSE IF body = BadJson
                 THEN answered(ChatError(500, "No se pudo procesar el chat."))
                 ELSE IF body.message.content = ""
                 THEN answered(ChatError(400, "El campo 'message' es obligatorio."))
                 ELSE IF body.message.length > MAX_MESSAGE_LENGTH
                 THEN answered(ChatError(400, "Message too long"))
                 ELSE IF ~allowAnonymousChat /\ caller = Anonymous
                 THEN answered(ChatError(401, "Debes iniciar sesion para usar el chat."))
                 ELSE [started EXCEPT
                          !.pc = IF RequestedConversation(body) # "" THEN "find" ELSE "create",
                          !.userId = IF allowAnonymousChat THEN NullUser ELSE caller,
                          !.requested = body.conversationId,
                          !.conversationId = RequestedConversation(body),
                          !.message = body.message.content]]
    /\ UNCHANGED <<conversations, messages, demoMode, clock>>
    /\ UNCHANGED <<calcVars, handlerVars, altResult, panel, form>>

chatStoreUnchanged == UNCHANGED <<requestLog, allowedLog, demoMode, clock>>
    /\ UNCHANGED <<calcVars, handlerVars, altResult, panel, form>>

\* The lookup of the requested conversation among those of the caller.
FindConversation(c, fails) ==
    /\ chats[c].pc = "find"
    /\ IF fails
       THEN Answer(c, ChatError(500, "Error consultando la conversacion."))
       ELSE chats' = [chats EXCEPT ![c] =
                IF ConversationFound(chats[c].conversationId, demoMode, chats[c].userId)
                THEN [@ EXCEPT !.pc = "history"]
                ELSE [@ EXCEPT !.pc = "create", !.conversationId = ""]]
    /\ UNCHANGED <<conversations, messages>>
    /\ chatStoreUnchanged

CreateConversation(c, fails) ==
    /\ chats[c].pc = "create"
    /\ IF fails
       THEN /\ Answer(c, ChatError(500, "Error creando la conversacion."))
            /\ UNCHANGED conversations
       ELSE /\ conversations' = conversations \cup
                  {ConversationRow(NextConversationId, chats[c].userId, ThisRequest(c))}
            /\ chats' = [chats EXCEPT ![c] =
                  [@ EXCEPT !.pc = "history", !.conversationId = NextConversationId,
                            !.created = TRUE]]
    /\ UNCHANGED messages
    /\ chatStoreUnchanged

\* The read of the latest messages of the conversation.
ReadHistory(c, fails) ==
    /\ chats[c].pc = "history"
    /\ IF fails
       THEN Answer(c, ChatError(500, "Error obteniendo historial de mensajes."))
       ELSE chats' = [chats EXCEPT ![c] =
                [@ EXCEPT !.pc = "insertUser",
                          !.history = ChatHistoryOf(chats[c].conversationId),
                          !.read = @ \cup {chats[c].conversationId},
                          !.stored = MessagesOf(chats[c].conversationId)]]
    /\ UNCHANGED <<conversations, messages>>
    /\ chatStoreUnchanged

\* The insert of the user's message; on success the context is built (the
\* tax section of the prompt only reads the caller's own tax records).
InsertUserMessage(c, fails) ==
    /\ chats[c].pc = "insertUser"
    /\ IF fails
       THEN /\ Answer(c, ChatError(500, "Error guardando el mensaje del usuario."))
            /\ UNCHANGED messages
       ELSE /\ messages' = Append(messages,
                  MessageRow(chats[c].conversationId, "user", chats[c].message,
                             chats[c].userId, ThisRequest(c)))
            /\ chats' = [chats EXCEPT ![c] =
                  [@ EXCEPT !.pc = "model",
                            !.context = contextLines(chats[c].history, chats[c].message)]]
    /\ UNCHANGED conversations
    /\ chatStoreUnchanged

\* openai.responses.create(...) with the context, and what follows up to
\* the insert of the assistant's message.
CallModel(c, outcome) ==
    /\ chats[c].pc = "model"
    /\ LET reply == IF outcome = "reply" THEN "respuesta" ELSE ""
           called == [chats[c] EXCEPT !.outcome = outcome]
       IN  chats' = [chats EXCEPT ![c] =
              IF outcome \notin {"reply", "empty"}
              THEN [called EXCEPT !.pc = "idle", !.response = ModelFailure(outcome)]
              ELSE IF ReplyMissing(reply)
              THEN [called EXCEPT !.pc = "idle",
                       !.response = ChatError(502, "OpenAI no devolvio texto de respuesta.")]
              ELSE [called EXCEPT !.pc = "insertAssistant", !.reply = reply]]
    /\ UNCHANGED <<conversations, messages>>
    /\ chatStoreUnchanged

InsertAssistantMessage(c, fails) ==
    /\ chats[c].pc = "insertAssistant"
    /\ IF fails
       THEN /\ Answer(c, ChatError(500, "Error guardando el mensaje del asistente."))
            /\ UNCHANGED messages
       ELSE /\ messages' = Append(messages,
                  MessageRow(chats[c].conversationId, "assistant", chats[c].reply,
                             chats[c].userId, ThisRequest(c)))
            /\ Answer(c, [status |-> 200, conversationId |-> chats[c].conversationId,
                          reply |-> chats[c].reply])
    /\ UNCHANGED conversations
    /\ chatStoreUnchanged

\* Date.now() moves on by half a window; MaxTime counts the half windows.
TickMs == ChatRateWindowMs \div 2

MaxTime == 3

Tick ==
    /\ clock + TickMs <= MaxTime * TickMs
    /\ clock' = clock + TickMs
    /\ UNCHANGED <<requestLog, allowedLog, conversations, messages, chats, demoMode>>
    /\ UNCHANGED <<calcVars, handlerVars, altResult, panel, form>>

\* The process starts with the tables as they are, demo mode as deployed
\* and, for each key, either no request so far or a burst of allowed ones
\* that has just used up the limit.
InitChatWith(bursts, counts, modes) ==
    /\ CalculatorIdle
    /\ HandlersIdle
    /\ altResult = NoResult
    /\ panel = NoPanel
    /\ form = NoForm
    /\ clock = 0
    /\ demoMode \in modes
    /\ conversations = SeedConversations
    /\ \E count \in counts : messages = SeedMessages(count)
    /\ \E burst \in bursts :
          /\ requestLog = [k \in burst |-> [i \in 1..ChatRateLimit |-> 0]]
          /\ allowedLog = requestLog
    /\ chats = [c \in Connections |-> IdleChat]

\* The callers, bodies and store failures of the requests.
ChatCallers == Users \cup {Anonymous}

Hola == Text("hola", 4)

ChatBodies ==
    {BadJson}
    \cup {ChatBody(id, Hola) : id \in {"", "k1", "k0", "nope"}}
    \cup {ChatBody("", Text("", 0)), ChatBody("", Text("largo", MAX_MESSAGE_LENGTH + 1))}

DirectHeaders == [xForwardedFor |-> <<>>, xRealIp |-> "ip2"]

\* How many messages conversation k1 holds at the start.
SeedCounts == {0, 9, 12}

InitChat == InitChatWith({{}}, SeedCounts, BOOLEAN)

NextChat ==
    \/ \E c \in Connections, caller \in ChatCallers, body \in ChatBodies :
          ReceiveChat(c, DirectHeaders, caller, body)
    \/ \E c \in Connections, fails \in BOOLEAN : FindConversation(c, fails)
    \/ \E c \in Connections, fails \in BOOLEAN : CreateConversation(c, fails)
    \/ \E c \in Connections, fails \in BOOLEAN : ReadHistory(c, fails)
    \/ \E c \in Connections, fails \in BOOLEAN : InsertUserMessage(c, fails)
    \/ \E c \in Connections, outcome \in ModelOutcomes : CallModel(c, outcome)
    \/ \E c \in Connections, fails \in BOOLEAN : InsertAssistantMessage(c, fails)

SpecChat == InitChat /\ [][NextChat]_vars

\* The limiter under requests from several addresses while time passes; the
\* store and the model do not fail here.
InitRateLimit == InitChatWith({{}, {"ip1"}, ClientKeys}, {0}, {FALSE})

RateLimitBodies == {BadJson, ChatBody("", Hola), ChatBody("k1", Hola)}

NextRateLimit ==
    \/ Tick
    \/ \E c \in Connections, headers \in Headers, body \in RateLimitBodies :
          ReceiveChat(c, headers, "u1", body)
    \/ \E c \in Connections : FindConversation(c, FALSE)
    \/ \E c \in Connections : CreateConversation(c, FALSE)
    \/ \E c \in Connections : ReadHistory(c, FALSE)
    \/ \E c \in Connections : InsertUserMessage(c, FALSE)
    \/ \E c \in Connections : CallModel(c, "reply")
    \/ \E c \in Connections : InsertAssistantMessage(c, FALSE)

SpecRateLimit == InitRateLimit /\ [][NextRateLimit]_vars

\* The instants Date.now() takes.
Instants == {k * TickMs : k \in 0..MaxTime}

AllowedIn(key, from, to) ==
    {i \in DOMAIN LogOf(allowedLog, key) :
        from < LogOf(allowedLog, key)[i] /\ LogOf(allowedLog, key)[i] <= to}

C22_AtMostTwentyAMinute ==
    \A key \in ClientKeys, t \in Instants :
        Cardinality(AllowedIn(key, t - ChatRateWindowMs, t)) <= ChatRateLimit

StoredBy(c) ==
    {i \in DOMAIN messages : messages[i].by = ThisRequest(c)}

ConversationsBy(c) == {k \in conversations : k.by = ThisRequest(c)}

C22_DeniedBeforeAnythingElse ==
    \A c \in Connections :
        chats[c].denied =>
            /\ chats[c].pc = "idle"
            /\ chats[c].response = ChatError(429, "Rate limit exceeded")
            /\ chats[c].read = {}
            /\ chats[c].outcome = ""
            /\ StoredBy(c) = {}
            /\ ConversationsBy(c) = {}

C22_KeysIndependent ==
    \A key \in ClientKeys :
        (LogOf(requestLog', key) # LogOf(requestLog, key)
            \/ LogOf(allowedLog', key) # LogOf(allowedLog, key)) =>
            \E c \in Connections :
                /\ chats[c].pc = "idle"
                /\ chats'[c].n = chats[c].n + 1
                /\ chats'[c].key = key

\* C22: for every key and every instant t at most 20 calls of
\* checkRateLimit(key, 20, 60000) made in (t - 60000 ms, t] are allowed; a
\* request beyond the limit is answered 429 'Rate limit exceeded' before the
\* body is parsed, the store is accessed or the model is called; and a
\* request of one key leaves the limiter's record of every other key as it is.
C22_RateLimited ==
    /\ []C22_AtMostTwentyAMinute
    /\ []C22_DeniedBeforeAnythingElse
    /\ [][C22_KeysIndependent]_vars

\* One address is at its limit and its request is denied although the body
\* could not even be parsed, while a request of another address made at the
\* same time goes through.
C22_Witness ==
    \E c, d \in Connections :
        /\ chats[c].denied
        /\ Cardinality(AllowedIn(chats[c].key, clock - ChatRateWindowMs, clock)) = ChatRateLimit
        /\ chats[d].n = 1
        /\ ~chats[d].denied
        /\ chats[d].key # chats[c].key
        /\ chats[d].response.status = 200

Answered(c, status) == chats[c].pc = "idle" /\ chats[c].response.status = status

\* The request of c named a conversation that the caller owns (in demo
\* mode: one that nobody owns).
NamedOwnConversation(c) ==
    /\ chats[c].requested # ""
    /\ \E k \in conversations :
          k.id = chats[c].requested /\ k.user_id = chats[c].userId

\* C23: a chat POST that answers 200 has stored exactly one new 'user'
\* message and then exactly one new 'assistant' message in the conversation
\* whose id it returns, and has created a conversation exactly when the
\* request's conversationId was absent or matched no conversation of the
\* caller.
C23_OneExchangeStored ==
    \A c \in Connections :
        Answered(c, 200) =>
            /\ \E i, j \in StoredBy(c) :
                  /\ i < j
                  /\ StoredBy(c) = {i, j}
                  /\ messages[i].role = "user"
                  /\ messages[i].content = chats[c].message
                  /\ messages[j].role = "assistant"
                  /\ messages[j].content = chats[c].response.reply
                  /\ messages[i].conversation_id = chats[c].response.conversationId
                  /\ messages[j].conversation_id = chats[c].response.conversationId
            /\ Cardinality(ConversationsBy(c)) <= 1
            /\ (ConversationsBy(c) # {}) <=> ~NamedOwnConversation(c)
            /\ \A k \in ConversationsBy(c) : k.id = chats[c].response.conversationId

\* Two requests named conversation k1 and were answered 200: the one of its
\* owner in k1 itself, the other one in a conversation created for it.
C23_Witness ==
    \E c, d \in Connections :
        /\ Answered(c, 200) /\ Answered(d, 200)
        /\ chats[c].requested = "k1" /\ chats[c].response.conversationId = "k1"
        /\ chats[d].requested = "k1" /\ ConversationsBy(d) # {}
        /\ Len(messages) = Len(SeedMessages(9)) + 4

\* The last n elements of a sequence, in its order.
LastOf(seq, n) == SubSeq(seq, Max(1, Len(seq) - n + 1), Len(seq))

LinesOf(rows) ==
    [i \in 1..Len(rows) |->
        ContextLine(IF rows[i].role = "assistant" THEN "Asistente" ELSE "Usuario",
                    rows[i].content)]

\* The context of the request of c has been built and is handed to the model.
ContextBuilt(c) ==
    chats[c].pc \in {"model", "insertAssistant"} \/ chats[c].outcome # ""

\* C24 as claimed: the context handed to the model consists of the 10 most
\* recently stored messages of the conversation (all of them when fewer
\* exist), in chronological order, ending with the message being answered.
C24_Claimed ==
    \A c \in Connections :
        chats[c].pc = "model" =>
            chats[c].context =
                LinesOf(LastOf(MessagesOf(chats[c].conversationId), ContextLimit))

\* C24: the context handed to the model consists of the 10 messages of the
\* conversation that were the most recently stored ones when the endpoint
\* read them, which is before it stores the message being answered (all of
\* them when fewer than 10 existed), in chronological order, followed by the
\* message being answered.
C24_TenEarlierThenCurrent ==
    \A c \in Connections :
        ContextBuilt(c) =>
            /\ \A i \in DOMAIN chats[c].stored : chats[c].stored[i].by # ThisRequest(c)
            /\ chats[c].context =
                  LinesOf(LastOf(chats[c].stored, ContextLimit))
                  \o <<ContextLine("Usuario", chats[c].message)>>

\* The conversation held twelve messages: the context has eleven lines, the
\* third to the twelfth stored message and the message being answered.
C24_Witness ==
    \E c \in Connections :
        /\ chats[c].pc = "model"
        /\ chats[c].conversationId = "k1"
        /\ Len(chats[c].stored) = 12
        /\ Len(chats[c].context) = ContextLimit + 1
        /\ chats[c].context[1].content = "m3"
        /\ chats[c].context[ContextLimit].content = "m12"
        /\ chats[c].context[ContextLimit + 1].content = "hola"

\* The caller's id as the chat endpoint takes it: null in demo mode.
CallerId(c) == IF demoMode THEN NullUser ELSE chats[c].caller

\* The request of c named a conversation that belongs to somebody else and
\* has got past the lookup.
NamedForeignConversation(c) ==
    /\ chats[c].requested # ""
    /\ \E k \in conversations :
          k.id = chats[c].requested /\ k.user_id # CallerId(c)
    /\ chats[c].pc \notin {"idle", "find"} \/ Answered(c, 200)

\* C26: each message stored by a request is in a conversation whose user_id
\* is the caller's id (null in demo mode), and every message's conversation
\* has the user_id of the message; a request that names a conversation of
\* another user is answered in a conversation created for it, and reads and
\* stores nothing in the other user's conversation, whose row stays as it was.
C26_NoForeignConversation ==
    /\ \A i \in DOMAIN messages :
          \E k \in conversations :
              /\ k.id = messages[i].conversation_id
              /\ k.user_id = messages[i].user_id
    /\ \A c \in Connections : \A i \in StoredBy(c) :
          messages[i].user_id = CallerId(c)
    /\ SeedConversations \subseteq conversations
    /\ \A c \in Connections :
          NamedForeignConversation(c) =>
              /\ chats[c].requested \notin chats[c].read
              /\ \A i \in StoredBy(c) : messages[i].conversation_id # chats[c].requested
              /\ chats[c].conversationId # chats[c].requested
              /\ Answered(c, 200) =>
                    /\ ConversationsBy(c) # {}
                    /\ \A k \in ConversationsBy(c) :
                          k.id = chats[c].response.conversationId /\ k.user_id = CallerId(c)

\* User u2 named conversation k1 of user u1 and was answered in a new
\* conversation of their own; k1 holds what it held before.
C26_Witness ==
    \E c \in Connections :
        /\ ~demoMode
        /\ chats[c].caller = "u2"
        /\ chats[c].requested = "k1"
        /\ Answered(c, 200)
        /\ chats[c].response.conversationId = "n1"
        /\ chats[c].read = {"n1"}
        /\ MessagesOf("k1") = SubSeq(SeedMessages(12), 1, 12)
        /\ Len(MessagesOf("n1")) = 2

\* The model call of the request of c failed, timed out or returned no text.
ModelFailed(c) == chats[c].outcome \notin {"", "reply"}

CountOf(conversationId, role) ==
    Cardinality({i \in DOMAIN messages :
        messages[i].conversation_id = conversationId /\ messages[i].role = role})

\* C27: when the model call fails, times out or returns empty text the chat
\* POST answers 502 or 504 (504 on a timeout), the user's message and the
\* conversation created for it stay stored and no assistant message is
\* stored for it; and every conversation holds at least as many 'user'
\* messages as 'assistant' messages.
C27_ModelFailureKeepsUserMessage ==
    /\ \A c \in Connections :
          ModelFailed(c) =>
              /\ chats[c].pc = "idle"
              /\ chats[c].response.status = IF chats[c].outcome = "timeout" THEN 504 ELSE 502
              /\ \E i \in StoredBy(c) :
                    /\ StoredBy(c) = {i}
                    /\ messages[i] = MessageRow(chats[c].conversationId, "user",
                                                chats[c].message, chats[c].userId,
                                                ThisRequest(c))
              /\ chats[c].created =>
                    ConversationRow(chats[c].conversationId, chats[c].userId,
                                    ThisRequest(c)) \in conversations
    /\ \A k \in conversations :
          CountOf(k.id, "user") >= CountOf(k.id, "assistant")

\* One request timed out in a conversation created for it and another one
\* got an empty reply in conversation k1: each left its user message and no
\* answer behind.
C27_Witness ==
    \E c, d \in Connections :
        /\ chats[c].outcome = "timeout"
        /\ chats[c].response.status = 504
        /\ chats[c].created
        /\ CountOf(chats[c].conversationId, "user") = 1
        /\ CountOf(chats[c].conversationId, "assistant") = 0
        /\ chats[d].outcome = "empty"
        /\ chats[d].response.status = 502
        /\ chats[d].conversationId = "k1"
        /\ CountOf("k1", "user") = CountOf("k1", "assistant") + 1

=============================================================================
